---- MODULE Spec2Model ----
(***************************************************************************)
(* The document-root grammar of the RAML parser (src/src/parser.rs): the   *)
(* marker check, the forward cursor over the scanner's tokens, the value   *)
(* shape extractors, the root loop and the nested parsers, as a state      *)
(* machine that pulls one token per step.                                  *)
(*                                                                         *)
(* Strings are sequences of one-character strings, so that trimming,       *)
(* lower-casing and prefix tests are computed character by character.      *)
(***************************************************************************)
EXTENDS Integers, Sequences, FiniteSets, TLC

VARIABLES
  source,            \* the beginning of the text, up to and including its first line
  doc,               \* the structure of the text after the first line
  stream,            \* the tokens the scanner yields for the text, in order
  armed,             \* TRUE while the scanner may still deviate from the rendering once
  pos,               \* number of tokens pulled from the scanner
  pc,                \* the parser's position in the grammar
  ctx,               \* the field a value extractor was called for
  title, version, description, base_uri,
  protocols, media_types, documentation, security_schemes,
  values,            \* get_flow_sequence: values
  seq_result,        \* get_block_sequences: result
  block_result,      \* get_block_sequence: result
  key_marker,        \* get_block_sequence: token.0 of the Key being read
  kv_key,            \* get_key_value: key
  schemes_result,    \* get_security_schemes: result
  scheme_name,       \* get_security_schemes: the scalar v of the current entry
  security_type,     \* get_security_scheme: security_type
  ret,               \* what load_from_str returned
  previous           \* what an earlier load_from_str of the same text returned

rootVars == <<title, version, description, base_uri,
              protocols, media_types, documentation, security_schemes>>
localVars == <<values, seq_result, block_result, key_marker, kv_key,
               schemes_result, scheme_name, security_type>>
inputVars == <<source, doc, previous>>
vars == <<source, doc, previous, stream, armed, pos, pc, ctx, rootVars,
          localVars, ret>>

(***************************************************************************)
(* String literals of the source.                                          *)
(***************************************************************************)
RamlComment == <<"#", "%", "R", "A", "M", "L", " ", "1", ".", "0">>
s_title == <<"t", "i", "t", "l", "e">>
s_version == <<"v", "e", "r", "s", "i", "o", "n">>
s_description == <<"d", "e", "s", "c", "r", "i", "p", "t", "i", "o", "n">>
s_baseUri == <<"b", "a", "s", "e", "U", "r", "i">>
s_protocols == <<"p", "r", "o", "t", "o", "c", "o", "l", "s">>
s_mediaType == <<"m", "e", "d", "i", "a", "T", "y", "p", "e">>
s_documentation == <<"d", "o", "c", "u", "m", "e", "n", "t", "a", "t", "i", "o", "n">>
s_securitySchemes == <<"s", "e", "c", "u", "r", "i", "t", "y", "S", "c", "h", "e", "m", "e", "s">>
s_content == <<"c", "o", "n", "t", "e", "n", "t">>
s_type == <<"t", "y", "p", "e">>
s_displayName == <<"d", "i", "s", "p", "l", "a", "y", "N", "a", "m", "e">>
s_http == <<"h", "t", "t", "p">>
s_https == <<"h", "t", "t", "p", "s">>
s_oauth1 == <<"o", "a", "u", "t", "h", " ", "1", ".", "0">>
s_oauth2 == <<"o", "a", "u", "t", "h", " ", "2", ".", "0">>
s_basic == <<"b", "a", "s", "i", "c", " ", "a", "u", "t", "h", "e", "n", "t", "i", "c", "a", "t", "i", "o", "n">>
s_digest == <<"d", "i", "g", "e", "s", "t", " ", "a", "u", "t", "h", "e", "n", "t", "i", "c", "a", "t", "i", "o", "n">>
s_pass == <<"p", "a", "s", "s", " ", "t", "h", "r", "o", "u", "g", "h">>
xDashPrefix == <<"x", "-">>

(***************************************************************************)
(* Scalar payloads of the documents explored.                              *)
(***************************************************************************)
v_a == <<"a">>
v_B == <<"B">>
v_empty == <<>>
v_unknown == <<"u", "n", "k", "n", "o", "w", "n">>
v_other == <<"o", "t", "h", "e", "r">>
v_HTTPS == <<"H", "T", "T", "P", "S">>
v_Http == <<"H", "t", "t", "p">>
v_ftp == <<"f", "t", "p">>
v_OAuth1 == <<"O", "A", "u", "t", "h", " ", "1", ".", "0">>
v_OAuth2 == <<"O", "A", "u", "t", "h", " ", "2", ".", "0">>
v_Basic == <<"B", "a", "s", "i", "c", " ", "A", "u", "t", "h", "e", "n", "t", "i", "c", "a", "t", "i", "o", "n">>
v_Digest == <<"D", "i", "g", "e", "s", "t", " ", "A", "u", "t", "h", "e", "n", "t", "i", "c", "a", "t", "i", "o", "n">>
v_Pass == <<"P", "a", "s", "s", " ", "T", "h", "r", "o", "u", "g", "h">>
v_xcustom == <<"x", "-", "c", "u", "s", "t", "o", "m">>
v_XOther == <<"X", "-", "O", "t", "h", "e", "r">>
v_bogus == <<"b", "o", "g", "u", "s">>
v_s1 == <<"s", "1">>
v_s2 == <<"s", "2">>

(***************************************************************************)
(* Bounds of the documents explored.                                       *)
(***************************************************************************)
MaxRootEntries == 3
MaxSeqLen == 2
MaxBlocks == 2
MaxSchemes == 2

(***************************************************************************)
(* Option and Result values.                                               *)
(***************************************************************************)
None == [some |-> FALSE]
Some(v) == [some |-> TRUE, v |-> v]
Ok(v) == [ok |-> TRUE, v |-> v]
Err(e) == [ok |-> FALSE, e |-> e]

(***************************************************************************)
(* str::to_lowercase, str::trim, str::lines and str::starts_with, on the   *)
(* characters that occur.                                                  *)
(***************************************************************************)
UpperCase == <<"A", "B", "C", "D", "E", "F", "G", "H", "I", "J", "K", "L", "M",
               "N", "O", "P", "Q", "R", "S", "T", "U", "V", "W", "X", "Y", "Z">>
LowerCase == <<"a", "b", "c", "d", "e", "f", "g", "h", "i", "j", "k", "l", "m",
               "n", "o", "p", "q", "r", "s", "t", "u", "v", "w", "x", "y", "z">>
LowerChar(c) ==
  IF \E i \in 1..Len(UpperCase) : UpperCase[i] = c
  THEN LowerCase[CHOOSE i \in 1..Len(UpperCase) : UpperCase[i] = c]
  ELSE c
ToLowercase(s) == [i \in 1..Len(s) |-> LowerChar(s[i])]
StartsWith(s, p) == Len(s) >= Len(p) /\ SubSeq(s, 1, Len(p)) = p

WhiteSpace == {" ", "\t", "\n", "\r"}
RECURSIVE TrimStart(_)
TrimStart(s) ==
  IF s # <<>> /\ Head(s) \in WhiteSpace THEN TrimStart(Tail(s)) ELSE s
RECURSIVE TrimEnd(_)
TrimEnd(s) ==
  IF s # <<>> /\ s[Len(s)] \in WhiteSpace
  THEN TrimEnd(SubSeq(s, 1, Len(s) - 1)) ELSE s
Trim(s) == TrimEnd(TrimStart(s))
\* s.lines().next().unwrap_or_default(): the text before the first line feed,
\* without a carriage return that ends it; "" for the empty text
FirstLine(s) ==
  LET ends == {i \in 1..Len(s) : s[i] = "\n"}
      stop == IF ends = {} THEN Len(s) + 1
              ELSE CHOOSE i \in ends : \A j \in ends : i <= j
      line == SubSeq(s, 1, stop - 1)
  IN IF ends # {} /\ line # <<>> /\ line[Len(line)] = "\r"
     THEN SubSeq(line, 1, Len(line) - 1) ELSE line

(***************************************************************************)
(* Tokens of the scanner (yaml_rust TokenType) and the parser's own kinds. *)
(***************************************************************************)
TokenTypeDef ==
  {"NoToken", "StreamStart", "StreamEnd", "VersionDirective", "TagDirective",
   "DocumentStart", "DocumentEnd", "BlockSequenceStart", "BlockMappingStart",
   "BlockEnd", "FlowSequenceStart", "FlowSequenceEnd", "FlowMappingStart",
   "FlowMappingEnd", "BlockEntry", "FlowEntry", "Key", "Value", "Alias",
   "Anchor", "Tag", "Scalar"}
Tok(k) == [type |-> k]
Scalar(s) == [type |-> "Scalar", val |-> s]
\* Scanner::next() yields no token: the scan failed or the stream has ended
NoneToken == [type |-> "None"]

get_token_def(token_type) ==
  CASE token_type.type = "NoToken" -> "NoToken"
    [] token_type.type = "StreamStart" -> "StreamStart"
    [] token_type.type = "StreamEnd" -> "StreamEnd"
    [] token_type.type = "VersionDirective" -> "VersionDirective"
    [] token_type.type = "TagDirective" -> "TagDirective"
    [] token_type.type = "DocumentStart" -> "DocumentStart"
    [] token_type.type = "DocumentEnd" -> "DocumentEnd"
    [] token_type.type = "BlockSequenceStart" -> "BlockSequenceStart"
    [] token_type.type = "BlockMappingStart" -> "BlockMappingStart"
    [] token_type.type = "BlockEnd" -> "BlockEnd"
    [] token_type.type = "FlowSequenceStart" -> "FlowSequenceStart"
    [] token_type.type = "FlowSequenceEnd" -> "FlowSequenceEnd"
    [] token_type.type = "FlowMappingStart" -> "FlowMappingStart"
    [] token_type.type = "FlowMappingEnd" -> "FlowMappingEnd"
    [] token_type.type = "BlockEntry" -> "BlockEntry"
    [] token_type.type = "FlowEntry" -> "FlowEntry"
    [] token_type.type = "Key" -> "Key"
    [] token_type.type = "Value" -> "Value"
    [] token_type.type = "Alias" -> "Alias"
    [] token_type.type = "Anchor" -> "Anchor"
    [] token_type.type = "Tag" -> "Tag"
    [] token_type.type = "Scalar" -> "Scalar"

\* impl Display for TokenTypeDef
TokenTypeDefDisplay(d) ==
  CASE d = "StreamStart" -> "Stream-Start"
    [] d = "BlockMappingStart" -> "Block-Mapping-Start"
    [] d = "Scalar" -> "Scalar"
    [] d = "Alias" -> "Alias"
    [] d = "Anchor" -> "Ancor"
    [] d = "BlockEnd" -> "Block-End"
    [] d = "BlockEntry" -> "Block-Entry"
    [] d = "BlockSequenceStart" -> "Block-Sequence-Start"
    [] d = "DocumentEnd" -> "Document-End"
    [] d = "DocumentStart" -> "Document-Start"
    [] d = "FlowEntry" -> "Flow-Entry"
    [] d = "FlowMappingEnd" -> "Flow-Mapping-End"
    [] d = "FlowMappingStart" -> "Flow-Mapping-Start"
    [] d = "FlowSequenceEnd" -> "Flow-Sequence-End"
    [] d = "FlowSequenceStart" -> "Flow-Sequence-Start"
    [] d = "Key" -> "Key"
    [] d = "NoToken" -> "No-Token"
    [] d = "StreamEnd" -> "Stream-End"
    [] d = "Tag" -> "Tag"
    [] d = "TagDirective" -> "Tag-Directive"
    [] d = "Value" -> "Value"
    [] d = "VersionDirective" -> "Value-Directive"

(***************************************************************************)
(* Errors (error_definitions.rs).  A message is the sequence of its        *)
(* pieces: Lit a fixed piece of the template, Str a string of the          *)
(* document, At the "at line L column C" suffix of a marker.               *)
(***************************************************************************)
Lit(s) == [lit |-> s]
Str(s) == [str |-> s]
At(m) == [at |-> m]

\* impl Display for HierarchyLevel
HierarchyLevelDisplay(level) ==
  CASE level = "DocumentRoot" -> "document root"
    [] level = "Documentation" -> "documentation"
    [] level = "SecurityScheme" -> "security scheme"

UnexpectedKeyRoot(field, level) ==
  [def |-> "UnexpectedKeyRoot", field |-> field, level |-> level]
UnexpectedEntry(expected, found) ==
  [def |-> "UnexpectedEntry", expected |-> expected, found |-> found]
UnexpectedEntryMulti(expected, found) ==
  [def |-> "UnexpectedEntryMulti", expected |-> expected, found |-> found]
MissingRamlVersion == [def |-> "MissingRamlVersion"]
MissingField(field, level) ==
  [def |-> "MissingField", field |-> field, level |-> level]
UnexpectedProtocol == [def |-> "UnexpectedProtocol"]
MissingProtocols == [def |-> "MissingProtocols"]
InvalidSecuritySchemeType == [def |-> "InvalidSecuritySchemeType"]

\* the fold of UnexpectedEntryMulti: the display names joined by ","
RECURSIVE ExpectedDisplay(_)
ExpectedDisplay(expected) ==
  IF expected = <<>> THEN <<>>
  ELSE IF Len(expected) = 1 THEN <<Lit(TokenTypeDefDisplay(expected[1]))>>
  ELSE <<Lit(TokenTypeDefDisplay(expected[1])), Lit(",")>>
       \o ExpectedDisplay(Tail(expected))

ErrorMessage(error) ==
  CASE error.def = "UnexpectedKeyRoot" ->
         <<Lit("Unexpected field found at the "),
           Lit(HierarchyLevelDisplay(error.level)), Lit(": "), Str(error.field)>>
    [] error.def = "UnexpectedEntry" ->
         <<Lit("Unexpected entry found. Expected "),
           Lit(TokenTypeDefDisplay(error.expected)), Lit(", Found "),
           Lit(TokenTypeDefDisplay(error.found))>>
    [] error.def = "UnexpectedEntryMulti" ->
         <<Lit("Unexpected entry found. Expected one of ")>>
         \o ExpectedDisplay(error.expected)
         \o <<Lit(", Found "), Lit(TokenTypeDefDisplay(error.found))>>
    [] error.def = "MissingRamlVersion" ->
         <<Lit("Document must start with the following RAML comment line: #%RAML 1.0")>>
    [] error.def = "MissingField" ->
         <<Lit("Error parsing "), Lit(HierarchyLevelDisplay(error.level)),
           Lit(". Missing field: "), Str(error.field)>>
    [] error.def = "UnexpectedProtocol" ->
         <<Lit("Error parsing document root. Unexpected protocol")>>
    [] error.def = "MissingProtocols" ->
         <<Lit("Error parsing document root. Protocols must not be empty")>>
    [] error.def = "InvalidSecuritySchemeType" ->
         <<Lit("Error parsing security scheme. Unexpected type")>>

\* RamlError::new and RamlError::with_marker
RamlErrorNew(message) == [error |-> message]
RamlErrorWithMarker(message, marker) == [error |-> message \o <<At(marker)>>]

get_error(error, marker) ==
  IF marker.some
  THEN RamlErrorWithMarker(ErrorMessage(error), marker.v)
  ELSE RamlErrorNew(ErrorMessage(error))

(***************************************************************************)
(* The texts explored.  A text is its beginning (source) and the structure *)
(* of what follows (doc): a sequence of root entries, each a key and a     *)
(* value of one of the shapes YAML offers.                                 *)
(***************************************************************************)
SeqsUpTo(S, n) == UNION {[1..k -> S] : k \in 0..n}
SeqsFromTo(S, m, n) == UNION {[1..k -> S] : k \in m..n}

ScalarValue(s) == [shape |-> "scalar", s |-> s]
FlowValue(items) == [shape |-> "flow", items |-> items]
BlocksValue(blocks) == [shape |-> "blocks", blocks |-> blocks]
SchemesValue(schemes) == [shape |-> "schemes", schemes |-> schemes]
NullValue == [shape |-> "null"]
Entry(k, v) == [key |-> k, value |-> v]
Pair(k, v) == [k |-> k, v |-> v]
\* a key of a block with nothing after its colon
KeyOnly(k) == [k |-> k]
Scheme(name, fields) == [name |-> name, fields |-> fields]

TitleA == Entry(s_title, ScalarValue(v_a))

\* entries whose value is one scalar, or a short list
LightEntries ==
  {TitleA,
   Entry(s_title, ScalarValue(v_B)),
   Entry(s_title, ScalarValue(v_empty)),
   Entry(s_version, ScalarValue(v_a)),
   Entry(s_version, ScalarValue(v_B)),
   Entry(s_description, ScalarValue(v_B)),
   Entry(s_baseUri, ScalarValue(v_a)),
   Entry(s_mediaType, ScalarValue(v_a)),
   Entry(s_protocols, FlowValue(<<s_http>>)),
   Entry(v_unknown, ScalarValue(v_a))}

ProtocolEntries ==
  {Entry(s_protocols, FlowValue(items)) :
     items \in SeqsUpTo({s_http, v_HTTPS, v_ftp}, MaxSeqLen)}
  \cup {Entry(s_protocols, FlowValue(<<v_Http, s_https>>)),
        Entry(s_protocols, ScalarValue(s_http)),
        Entry(s_protocols, NullValue)}

MediaTypeEntries ==
  {Entry(s_mediaType, FlowValue(items)) :
     items \in SeqsUpTo({v_a, v_B}, MaxSeqLen)}
  \cup {Entry(s_mediaType, ScalarValue(v_B)),
        Entry(s_mediaType, NullValue),
        Entry(s_mediaType, BlocksValue(<<<<Pair(s_title, v_a)>>>>))}

ShapeEntries ==
  {Entry(s_title, NullValue),
   Entry(s_title, FlowValue(<<v_a>>)),
   Entry(s_version, FlowValue(<<v_a>>)),
   Entry(s_documentation, NullValue),
   Entry(s_documentation, ScalarValue(v_a)),
   Entry(s_securitySchemes, NullValue),
   Entry(s_securitySchemes, ScalarValue(v_a))}

\* documentation: the key/value pairs of a block, the blocks, the block lists
DocPairs ==
  {Pair(s_title, v_a), Pair(s_title, v_B), Pair(s_content, v_a),
   Pair(s_content, v_B), Pair(v_unknown, v_a), Pair(v_other, v_a),
   KeyOnly(s_content)}
Blocks == SeqsFromTo(DocPairs, 1, 2)
CompleteBlocks ==
  {b \in Blocks : /\ Len(b) = 2 /\ {b[1].k, b[2].k} = {s_title, s_content}
                  /\ "v" \in DOMAIN b[1] /\ "v" \in DOMAIN b[2]}
ListBlocks ==
  CompleteBlocks
  \cup {<<Pair(v_unknown, v_a)>>, <<Pair(s_content, v_a)>>, <<Pair(s_title, v_a)>>,
        <<Pair(s_title, v_a), KeyOnly(s_content)>>}
DocumentationEntries ==
  {Entry(s_documentation, BlocksValue(<<b>>)) : b \in Blocks}
  \cup {Entry(s_documentation, BlocksValue(bs)) :
          bs \in SeqsFromTo(ListBlocks, 2, MaxBlocks)}

\* securitySchemes: the fields of a scheme, the schemes, the scheme lists
SchemeTypes ==
  {v_OAuth1, s_oauth1, v_OAuth2, v_Basic, v_Digest, v_Pass,
   v_xcustom, v_XOther, v_bogus, v_empty, xDashPrefix}
SchemePairs ==
  {Pair(s_type, v_OAuth2), Pair(s_type, v_XOther), Pair(s_displayName, v_a),
   Pair(s_description, v_B), Pair(v_unknown, v_a)}
SchemeBodies ==
  {<<Pair(s_type, t)>> : t \in SchemeTypes}
  \cup SeqsUpTo(SchemePairs, 2)
ListSchemes ==
  {Scheme(n, f) : n \in {v_s1, v_s2},
                  f \in {<<Pair(s_type, v_OAuth2)>>, <<Pair(s_type, v_xcustom)>>,
                         <<Pair(s_type, v_bogus)>>, <<Pair(v_unknown, v_a)>>}}
SecuritySchemesEntries ==
  {Entry(s_securitySchemes, SchemesValue(<<Scheme(v_s1, f)>>)) : f \in SchemeBodies}
  \cup {Entry(s_securitySchemes, SchemesValue(ss)) :
          ss \in SeqsFromTo(ListSchemes, 2, MaxSchemes)}

HeavyEntries ==
  ProtocolEntries \cup MediaTypeEntries \cup ShapeEntries
  \cup DocumentationEntries \cup SecuritySchemesEntries

\* documents in which a key with a nested value occurs twice
RepeatedKeyDocuments ==
  {<<TitleA, Entry(s_protocols, FlowValue(<<s_http>>)),
     Entry(s_protocols, FlowValue(<<v_HTTPS, s_http>>))>>,
   <<TitleA, Entry(s_mediaType, FlowValue(<<v_a, v_B>>)),
     Entry(s_mediaType, ScalarValue(v_B))>>,
   <<TitleA,
     Entry(s_documentation,
           BlocksValue(<<<<Pair(s_title, v_a), Pair(s_content, v_B)>>>>)),
     Entry(s_documentation,
           BlocksValue(<<<<Pair(s_content, v_a), Pair(s_title, v_B)>>>>))>>,
   <<TitleA,
     Entry(s_securitySchemes,
           SchemesValue(<<Scheme(v_s1, <<Pair(s_type, v_OAuth2)>>)>>)),
     Entry(s_securitySchemes,
           SchemesValue(<<Scheme(v_s2, <<Pair(s_type, v_xcustom)>>)>>))>>,
   <<Entry(s_title, ScalarValue(v_B)),
     Entry(s_securitySchemes,
           SchemesValue(<<Scheme(v_s1, <<Pair(s_type, v_OAuth2)>>),
                          Scheme(v_s1, <<Pair(s_type, v_xcustom)>>)>>)),
     TitleA>>}

Documents ==
  SeqsUpTo(LightEntries, MaxRootEntries)
  \cup RepeatedKeyDocuments
  \cup {<<e>> : e \in HeavyEntries}
  \cup {<<TitleA, e>> : e \in HeavyEntries}
  \cup {<<e, TitleA>> : e \in HeavyEntries}

(***************************************************************************)
(* The tokens the scanner yields for a document (yaml_rust), block style   *)
(* for mappings and block sequences, flow style for lists.                 *)
(***************************************************************************)
RECURSIVE Concat(_)
Concat(ss) == IF ss = <<>> THEN <<>> ELSE Head(ss) \o Concat(Tail(ss))

RenderFlow(items) ==
  <<Tok("FlowSequenceStart")>>
  \o Concat([i \in 1..Len(items) |->
               IF i = 1 THEN <<Scalar(items[i])>>
               ELSE <<Tok("FlowEntry"), Scalar(items[i])>>])
  \o <<Tok("FlowSequenceEnd")>>
RenderPairs(pairs) ==
  Concat([i \in 1..Len(pairs) |->
            <<Tok("Key"), Scalar(pairs[i].k), Tok("Value")>>
            \o (IF "v" \in DOMAIN pairs[i] THEN <<Scalar(pairs[i].v)>> ELSE <<>>)])
RenderBlock(block) ==
  <<Tok("BlockEntry"), Tok("BlockMappingStart")>>
  \o RenderPairs(block) \o <<Tok("BlockEnd")>>
RenderBlocks(blocks) ==
  <<Tok("BlockSequenceStart")>>
  \o Concat([i \in 1..Len(blocks) |-> RenderBlock(blocks[i])])
  \o <<Tok("BlockEnd")>>
RenderScheme(scheme) ==
  <<Tok("Key"), Scalar(scheme.name), Tok("Value")>>
  \o (IF scheme.fields = <<>> THEN <<>>
      ELSE <<Tok("BlockMappingStart")>> \o RenderPairs(scheme.fields)
           \o <<Tok("BlockEnd")>>)
RenderSchemes(schemes) ==
  <<Tok("BlockMappingStart")>>
  \o Concat([i \in 1..Len(schemes) |-> RenderScheme(schemes[i])])
  \o <<Tok("BlockEnd")>>
RenderValue(value) ==
  CASE value.shape = "scalar" -> <<Scalar(value.s)>>
    [] value.shape = "flow" -> RenderFlow(value.items)
    [] value.shape = "blocks" -> RenderBlocks(value.blocks)
    [] value.shape = "schemes" -> RenderSchemes(value.schemes)
    [] value.shape = "null" -> <<>>
RenderEntry(entry) ==
  <<Tok("Key"), Scalar(entry.key), Tok("Value")>> \o RenderValue(entry.value)
Render(d) ==
  IF d = <<>> THEN <<Tok("StreamStart"), Tok("StreamEnd")>>
  ELSE <<Tok("StreamStart"), Tok("BlockMappingStart")>>
       \o Concat([i \in 1..Len(d) |-> RenderEntry(d[i])])
       \o <<Tok("BlockEnd"), Tok("StreamEnd")>>

\* beginnings of a text: the comment line, alone or padded, and near misses
Sources ==
  {RamlComment,
   RamlComment \o <<"\n">>,
   RamlComment \o <<"\r", "\n">>,
   <<" ", "\t">> \o RamlComment \o <<" ", "\n">>,
   <<>>,
   <<"\n">> \o RamlComment \o <<"\n">>,
   <<" ">>,
   SubSeq(RamlComment, 1, Len(RamlComment) - 1) \o <<"\n">>,
   RamlComment \o <<"x", "\n">>,
   <<"#", "%", "R", "A", "M", "L", " ", " ", "1", ".", "0", "\n">>,
   ToLowercase(RamlComment) \o <<"\n">>,
   <<"#", " ">> \o RamlComment \o <<"\n">>,
   s_title \o <<":", " ", "a", "\n">>,
   RamlComment \o <<"\r">>}

\* documents read under every beginning of a text
SourceDocuments ==
  {<<>>, <<TitleA>>, <<Entry(s_version, ScalarValue(v_a))>>,
   <<TitleA, Entry(s_protocols, FlowValue(<<s_http, v_HTTPS>>))>>}

\* documents read with a scanner that may deviate once from the rendering
DeviationDocuments ==
  {<<>>,
   <<TitleA>>,
   <<TitleA, Entry(s_protocols, FlowValue(<<s_http, v_HTTPS>>))>>,
   <<TitleA, Entry(s_mediaType, FlowValue(<<v_a, v_B>>))>>,
   <<TitleA, Entry(s_mediaType, ScalarValue(v_a))>>,
   <<TitleA, Entry(s_documentation,
                   BlocksValue(<<<<Pair(s_title, v_a), Pair(s_content, v_B)>>>>))>>,
   <<TitleA, Entry(s_securitySchemes,
                   SchemesValue(<<Scheme(v_s1, <<Pair(s_type, v_OAuth2)>>)>>))>>}

\* what a deviating scanner may yield in place of a token
Vocabulary ==
  {Tok(k) : k \in TokenTypeDef \ {"Scalar"}}
  \cup {Scalar(v_a), Scalar(s_title), Scalar(s_type)}
  \cup {NoneToken}

(***************************************************************************)
(* State after construction: a text, nothing parsed.                       *)
(***************************************************************************)
Running == [state |-> "running"]
Returned(result) == [state |-> "returned", result |-> result]
Panicked == [state |-> "panicked"]
NotCalled == [state |-> "none"]

EmptyMap == [k \in {} |-> None]
\* as if an entry already present were kept
InsertKeepingFirst(map, k, v) ==
  [x \in DOMAIN map \cup {k} |-> IF x \in DOMAIN map THEN map[x] ELSE v]
Insert(map, k, v) == [x \in DOMAIN map \cup {k} |-> IF x = k THEN v ELSE map[x]]

Init ==
  /\ source \in Sources
  /\ doc \in (IF source = RamlComment \o <<"\n">> THEN Documents ELSE SourceDocuments)
  /\ stream = Render(doc)
  /\ armed \in (IF source = RamlComment \o <<"\n">> /\ doc \in DeviationDocuments
                THEN BOOLEAN ELSE {FALSE})
  /\ pos = 0
  /\ pc = "parse_raml_string"
  /\ ctx = "none"
  /\ title = None /\ version = None /\ description = None /\ base_uri = None
  /\ protocols = None /\ media_types = None /\ documentation = None
  /\ security_schemes = None
  /\ values = <<>> /\ seq_result = <<>> /\ block_result = EmptyMap
  /\ key_marker = 0 /\ kv_key = <<>>
  /\ schemes_result = EmptyMap /\ scheme_name = <<>> /\ security_type = None
  /\ ret = Running
  /\ previous = NotCalled

(***************************************************************************)
(* ForwardCursor: next_token and expect.                                   *)
(***************************************************************************)
\* what Scanner::next() may yield at the next pull
NextTokens ==
  IF pos >= Len(stream) THEN {NoneToken}
  ELSE {stream[pos + 1]} \cup (IF armed THEN Vocabulary ELSE {})

\* the scanner yields t: the stream is what was, and will be, yielded
Pull(t) ==
  /\ pos' = pos + 1
  /\ IF pos >= Len(stream) \/ t = stream[pos + 1]
     THEN UNCHANGED <<stream, armed>>
     ELSE /\ armed' = FALSE
          /\ stream' = SubSeq(stream, 1, pos)
                       \o (IF t = NoneToken THEN <<>> ELSE <<t>>)
                       \o (IF t \in {NoneToken, Tok("StreamEnd")} THEN <<>>
                           ELSE SubSeq(stream, pos + 2, Len(stream)))
  /\ UNCHANGED inputVars

\* Token(Marker, TokenType) of the pull in progress
Token(t) == [m |-> pos + 1, t |-> t]

\* as if expected and found were exchanged in the error
expect_swapped(token, expected_token_type) ==
  LET found_token_type == get_token_def(token.t)
  IN IF found_token_type = expected_token_type
     THEN Ok("unit")
     ELSE Err(get_error(UnexpectedEntry(found_token_type, expected_token_type),
                        Some(token.m)))

expect(token, expected_token_type) ==
  LET found_token_type == get_token_def(token.t)
  IN IF found_token_type = expected_token_type
     THEN Ok("unit")
     ELSE Err(get_error(UnexpectedEntry(expected_token_type, found_token_type),
                        Some(token.m)))

get_scalar_value(token) ==
  IF token.t.type = "Scalar"
  THEN Ok(token.t.val)
  ELSE Err(get_error(UnexpectedEntry("Scalar", get_token_def(token.t)),
                     Some(token.m)))

(***************************************************************************)
(* How a step ends.                                                        *)
(***************************************************************************)
Goto(p) == /\ pc' = p
           /\ UNCHANGED <<ctx, rootVars, localVars, ret>>
Return(result) == /\ pc' = "done"
                  /\ ret' = Returned(result)
                  /\ UNCHANGED <<ctx, rootVars, localVars>>
\* unwrap() of None
Panic == /\ pc' = "done"
         /\ ret' = Panicked
         /\ UNCHANGED <<ctx, rootVars, localVars>>
\* cursor.expect(kind)?; then continue at p
ExpectThen(token, kind, p) ==
  IF expect(token, kind).ok THEN Goto(p) ELSE Return(expect(token, kind))

(***************************************************************************)
(* Pure parts of the field parsers.                                        *)
(***************************************************************************)
\* as if the last Err, not the first, were the one returned
CollectLast(rs) ==
  LET bad == {i \in 1..Len(rs) : ~rs[i].ok}
  IN IF bad # {} THEN rs[CHOOSE i \in bad : \A j \in bad : i >= j]
     ELSE Ok([i \in 1..Len(rs) |-> rs[i].v])

\* Iterator::collect into a Result: the first Err in order, else all values
Collect(rs) ==
  LET bad == {i \in 1..Len(rs) : ~rs[i].ok}
  IN IF bad # {} THEN rs[CHOOSE i \in bad : \A j \in bad : i <= j]
     ELSE Ok([i \in 1..Len(rs) |-> rs[i].v])

FlowSequenceEntry(value, marker) == [value |-> value, marker |-> marker]
BlockSequenceEntry(value, marker) == [value |-> value, marker |-> marker]

\* as if the protocol names were matched without lower-casing
ProtocolOfCaseSensitive(p) ==
  IF p.value = s_http THEN Ok("Http")
  ELSE IF p.value = s_https THEN Ok("Https")
  ELSE Err(get_error(UnexpectedProtocol, Some(p.marker)))

\* the closure of get_protocols
ProtocolOf(p) ==
  LET lower == ToLowercase(p.value)
  IN IF lower = s_http THEN Ok("Http")
     ELSE IF lower = s_https THEN Ok("Https")
     ELSE Err(get_error(UnexpectedProtocol, Some(p.marker)))

\* as if an empty list were let through
get_protocols_unchecked(entries) ==
  Collect([i \in 1..Len(entries) |-> ProtocolOf(entries[i])])

\* get_protocols, after get_multiple_values
get_protocols(entries) ==
  IF entries = <<>> THEN Err(get_error(MissingProtocols, None))
  ELSE Collect([i \in 1..Len(entries) |-> ProtocolOf(entries[i])])

\* get_media_types, after get_single_or_multiple_values
get_media_types(entries) == Ok([i \in 1..Len(entries) |-> entries[i].value])

\* as if the escape variant carried the string as written
SecuritySchemeTypeFromStrVerbatim(s) ==
  LET lower == ToLowercase(s)
  IN CASE lower = s_oauth1 -> Ok([variant |-> "OAuth1"])
       [] lower = s_oauth2 -> Ok([variant |-> "OAuth2"])
       [] lower = s_basic -> Ok([variant |-> "BasicAuthentication"])
       [] lower = s_digest -> Ok([variant |-> "DigestAuthentication"])
       [] lower = s_pass -> Ok([variant |-> "PassThrough"])
       [] OTHER -> IF StartsWith(lower, xDashPrefix)
                   THEN Ok([variant |-> "XOther", s |-> s])
                   ELSE Err(get_error(InvalidSecuritySchemeType, None))

\* SecuritySchemeType::from_str
SecuritySchemeTypeFromStr(s) ==
  LET lower == ToLowercase(s)
  IN CASE lower = s_oauth1 -> Ok([variant |-> "OAuth1"])
       [] lower = s_oauth2 -> Ok([variant |-> "OAuth2"])
       [] lower = s_basic -> Ok([variant |-> "BasicAuthentication"])
       [] lower = s_digest -> Ok([variant |-> "DigestAuthentication"])
       [] lower = s_pass -> Ok([variant |-> "PassThrough"])
       [] OTHER -> IF StartsWith(lower, xDashPrefix)
                   THEN Ok([variant |-> "XOther", s |-> lower])
                   ELSE Err(get_error(InvalidSecuritySchemeType, None))

RamlDocumentation(t, c) == [title |-> t, content |-> c]
\* Option::unwrap of None inside a closure: no value, no error
Unwound == [ok |-> FALSE, panic |-> TRUE]

\* as if a block without title were reported as a root without title
DocumentationOfRootLevel(s) ==
  LET unexpected == DOMAIN s \ {s_title, s_content}
  IN IF unexpected # {}
     THEN {Err(get_error(UnexpectedKeyRoot(key, "Documentation"),
                         Some(s[key].marker))) : key \in unexpected}
     ELSE IF s_title \notin DOMAIN s
     THEN {Err(get_error(MissingField(s_title, "DocumentRoot"), None))}
     ELSE IF s_content \notin DOMAIN s
     THEN {Unwound}
     ELSE {Ok(RamlDocumentation(s[s_title].value, s[s_content].value))}

\* as if the title and the content of a block changed places
DocumentationOfSwapped(s) ==
  LET unexpected == DOMAIN s \ {s_title, s_content}
  IN IF unexpected # {}
     THEN {Err(get_error(UnexpectedKeyRoot(key, "Documentation"),
                         Some(s[key].marker))) : key \in unexpected}
     ELSE IF s_title \notin DOMAIN s
     THEN {Err(get_error(MissingField(s_title, "Documentation"), None))}
     ELSE IF s_content \notin DOMAIN s
     THEN {Unwound}
     ELSE {Ok(RamlDocumentation(s[s_content].value, s[s_title].value))}

\* the closure of get_documentation on one block: every outcome that some
\* iteration order of the block's HashMap gives
DocumentationOf(s) ==
  LET unexpected == DOMAIN s \ {s_title, s_content}
  IN IF unexpected # {}
     THEN {Err(get_error(UnexpectedKeyRoot(key, "Documentation"),
                         Some(s[key].marker))) : key \in unexpected}
     ELSE IF s_title \notin DOMAIN s
     THEN {Err(get_error(MissingField(s_title, "Documentation"), None))}
     ELSE IF s_content \notin DOMAIN s
     THEN {Unwound}
     ELSE {Ok(RamlDocumentation(s[s_title].value, s[s_content].value))}

\* get_documentation, after get_multiple_sets_of_values: the blocks are
\* mapped in order and the first one that is no entry decides
get_documentation(sets) ==
  LET bad == {i \in 1..Len(sets) : \E r \in DocumentationOf(sets[i]) : ~r.ok}
  IN IF bad # {}
     THEN DocumentationOf(sets[CHOOSE i \in bad : \A j \in bad : i <= j])
     ELSE {Ok([i \in 1..Len(sets) |->
                 (CHOOSE r \in DocumentationOf(sets[i]) : TRUE).v])}

(***************************************************************************)
(* parse_raml_string and error_if_incorrect_raml_comment.                  *)
(***************************************************************************)
\* as if the comment only had to begin the first line
error_if_comment_is_no_prefix(s) ==
  LET first_line == Trim(FirstLine(s))
  IN IF ~StartsWith(first_line, RamlComment)
     THEN Err(get_error(MissingRamlVersion, None))
     ELSE Ok("unit")

error_if_incorrect_raml_comment(s) ==
  LET first_line == Trim(FirstLine(s))
  IN IF first_line # RamlComment
     THEN Err(get_error(MissingRamlVersion, None))
     ELSE Ok("unit")

parse_raml_string ==
  /\ pc = "parse_raml_string"
  /\ IF error_if_incorrect_raml_comment(source).ok
     THEN Goto("parse_root")
     ELSE Return(error_if_incorrect_raml_comment(source))
  /\ UNCHANGED <<inputVars, stream, armed, pos>>

(***************************************************************************)
(* parse_root.                                                             *)
(***************************************************************************)
Raml ==
  [title |-> title.v, version |-> version, description |-> description,
   base_uri |-> base_uri, protocols |-> protocols, media_types |-> media_types,
   documentation |-> documentation, security_schemes |-> security_schemes]

parse_root_stream_start_on(token) ==
  ExpectThen(token, "StreamStart", "parse_root_mapping")
parse_root ==
  /\ pc = "parse_root"
  /\ \E t \in NextTokens :
       /\ Pull(t)
       /\ IF t = NoneToken THEN Panic ELSE parse_root_stream_start_on(Token(t))

parse_root_mapping_on(token) ==
  ExpectThen(token, "BlockMappingStart", "parse_root_loop")
parse_root_mapping ==
  /\ pc = "parse_root_mapping"
  /\ \E t \in NextTokens :
       /\ Pull(t)
       /\ IF t = NoneToken THEN Panic ELSE parse_root_mapping_on(Token(t))

\* as if the missing title were reported at the BlockEnd's marker
parse_root_loop_positioned(token) ==
  CASE token.t.type = "Key" -> Goto("parse_root_key")
    [] token.t.type = "BlockEnd" ->
         IF ~title.some
         THEN Return(Err(get_error(MissingField(s_title, "DocumentRoot"),
                                   Some(token.m))))
         ELSE Return(Ok(Raml))
    [] OTHER ->
         Return(Err(get_error(UnexpectedEntry("Key", get_token_def(token.t)),
                              Some(token.m))))

parse_root_loop_on(token) ==
  CASE token.t.type = "Key" -> Goto("parse_root_key")
    [] token.t.type = "BlockEnd" ->
         IF ~title.some
         THEN Return(Err(get_error(MissingField(s_title, "DocumentRoot"), None)))
         ELSE Return(Ok(Raml))
    [] OTHER ->
         Return(Err(get_error(UnexpectedEntry("Key", get_token_def(token.t)),
                              Some(token.m))))
parse_root_loop ==
  /\ pc = "parse_root_loop"
  /\ \E t \in NextTokens :
       /\ Pull(t)
       /\ IF t = NoneToken THEN Panic ELSE parse_root_loop_on(Token(t))

\* the extractor a root key is handed to, and the field it is for
Call(p, field) == /\ pc' = p
                  /\ ctx' = field
                  /\ UNCHANGED <<rootVars, localVars, ret>>
\* as if a key that is no root key were passed over
parse_root_key_lenient(token) ==
  IF token.t.type = "Scalar"
  THEN CASE token.t.val = s_title -> Call("get_single_value", "title")
         [] token.t.val = s_version -> Call("get_single_value", "version")
         [] token.t.val = s_description -> Call("get_single_value", "description")
         [] token.t.val = s_baseUri -> Call("get_single_value", "base_uri")
         [] token.t.val = s_protocols -> Call("get_multiple_values", "protocols")
         [] token.t.val = s_mediaType ->
              Call("get_single_or_multiple_values", "media_types")
         [] token.t.val = s_documentation ->
              Call("get_multiple_sets_of_values", "documentation")
         [] token.t.val = s_securitySchemes ->
              Call("get_security_schemes", "security_schemes")
         [] OTHER -> Goto("parse_root_loop")
  ELSE Return(Err(get_error(UnexpectedEntry("Scalar", get_token_def(token.t)),
                            Some(token.m))))

\* as if the title had to be the first key
parse_root_key_title_first(token) ==
  IF token.t.type = "Scalar"
  THEN CASE token.t.val # s_title /\ ~title.some ->
              Return(Err(get_error(MissingField(s_title, "DocumentRoot"), None)))
         [] token.t.val = s_title -> Call("get_single_value", "title")
         [] token.t.val = s_version -> Call("get_single_value", "version")
         [] token.t.val = s_description -> Call("get_single_value", "description")
         [] token.t.val = s_baseUri -> Call("get_single_value", "base_uri")
         [] token.t.val = s_protocols -> Call("get_multiple_values", "protocols")
         [] token.t.val = s_mediaType ->
              Call("get_single_or_multiple_values", "media_types")
         [] token.t.val = s_documentation ->
              Call("get_multiple_sets_of_values", "documentation")
         [] token.t.val = s_securitySchemes ->
              Call("get_security_schemes", "security_schemes")
         [] OTHER ->
              Return(Err(get_error(UnexpectedKeyRoot(token.t.val, "DocumentRoot"),
                                   Some(token.m))))
  ELSE Return(Err(get_error(UnexpectedEntry("Scalar", get_token_def(token.t)),
                            Some(token.m))))

parse_root_key_on(token) ==
  IF token.t.type = "Scalar"
  THEN CASE token.t.val = s_title -> Call("get_single_value", "title")
         [] token.t.val = s_version -> Call("get_single_value", "version")
         [] token.t.val = s_description -> Call("get_single_value", "description")
         [] token.t.val = s_baseUri -> Call("get_single_value", "base_uri")
         [] token.t.val = s_protocols -> Call("get_multiple_values", "protocols")
         [] token.t.val = s_mediaType ->
              Call("get_single_or_multiple_values", "media_types")
         [] token.t.val = s_documentation ->
              Call("get_multiple_sets_of_values", "documentation")
         [] token.t.val = s_securitySchemes ->
              Call("get_security_schemes", "security_schemes")
         [] OTHER ->
              Return(Err(get_error(UnexpectedKeyRoot(token.t.val, "DocumentRoot"),
                                   Some(token.m))))
  ELSE Return(Err(get_error(UnexpectedEntry("Scalar", get_token_def(token.t)),
                            Some(token.m))))
parse_root_key ==
  /\ pc = "parse_root_key"
  /\ \E t \in NextTokens :
       /\ Pull(t)
       /\ IF t = NoneToken THEN Panic ELSE parse_root_key_on(Token(t))

(***************************************************************************)
(* get_single_value: expect Value, then get_scalar_value; the caller       *)
(* assigns the field.                                                      *)
(***************************************************************************)
get_single_value_on(token) ==
  ExpectThen(token, "Value", "get_single_value_scalar")
get_single_value ==
  /\ pc = "get_single_value"
  /\ \E t \in NextTokens :
       /\ Pull(t)
       /\ IF t = NoneToken THEN Panic ELSE get_single_value_on(Token(t))

\* as if the title were stored lower-cased
AssignSingleValueLowered(field, v) ==
  /\ title' = IF field = "title" THEN Some(ToLowercase(v)) ELSE title
  /\ version' = IF field = "version" THEN Some(v) ELSE version
  /\ description' = IF field = "description" THEN Some(v) ELSE description
  /\ base_uri' = IF field = "base_uri" THEN Some(v) ELSE base_uri
  /\ UNCHANGED <<protocols, media_types, documentation, security_schemes>>

\* as if a new version made the description forgotten
AssignSingleValueClearing(field, v) ==
  /\ title' = IF field = "title" THEN Some(v) ELSE title
  /\ version' = IF field = "version" THEN Some(v) ELSE version
  /\ description' = IF field = "description" THEN Some(v)
                    ELSE IF field = "version" THEN None ELSE description
  /\ base_uri' = IF field = "base_uri" THEN Some(v) ELSE base_uri
  /\ UNCHANGED <<protocols, media_types, documentation, security_schemes>>

\* title = Some(get_single_value(cursor)?), and the like
AssignSingleValue(field, v) ==
  /\ title' = IF field = "title" THEN Some(v) ELSE title
  /\ version' = IF field = "version" THEN Some(v) ELSE version
  /\ description' = IF field = "description" THEN Some(v) ELSE description
  /\ base_uri' = IF field = "base_uri" THEN Some(v) ELSE base_uri
  /\ UNCHANGED <<protocols, media_types, documentation, security_schemes>>

get_single_value_scalar_on(token) ==
  LET value == get_scalar_value(token)
  IN IF ~value.ok THEN Return(value)
     ELSE IF ctx = "security_type"
     THEN LET parsed == SecuritySchemeTypeFromStr(value.v)
          IN IF ~parsed.ok THEN Return(parsed)
             ELSE /\ security_type' = Some(parsed.v)
                  /\ pc' = "get_security_scheme_loop"
                  /\ UNCHANGED <<ctx, rootVars, ret, values, seq_result,
                                 block_result, key_marker, kv_key,
                                 schemes_result, scheme_name>>
     ELSE /\ AssignSingleValue(ctx, value.v)
          /\ pc' = "parse_root_loop"
          /\ UNCHANGED <<ctx, localVars, ret>>
get_single_value_scalar ==
  /\ pc = "get_single_value_scalar"
  /\ \E t \in NextTokens :
       /\ Pull(t)
       /\ IF t = NoneToken THEN Panic ELSE get_single_value_scalar_on(Token(t))

(***************************************************************************)
(* get_multiple_values, get_single_or_multiple_values, get_flow_sequence.  *)
(***************************************************************************)
get_multiple_values_on(token) ==
  ExpectThen(token, "Value", "get_multiple_values_start")
get_multiple_values ==
  /\ pc = "get_multiple_values"
  /\ \E t \in NextTokens :
       /\ Pull(t)
       /\ IF t = NoneToken THEN Panic ELSE get_multiple_values_on(Token(t))

\* get_flow_sequence is entered: let mut values = vec![]
\* as if values were not a fresh vector at each call
EnterFlowSequenceKeeping ==
  /\ pc' = "get_flow_sequence"
  /\ values' = values
  /\ UNCHANGED <<ctx, rootVars, ret, seq_result, block_result, key_marker,
                 kv_key, schemes_result, scheme_name, security_type>>

EnterFlowSequence ==
  /\ pc' = "get_flow_sequence"
  /\ values' = <<>>
  /\ UNCHANGED <<ctx, rootVars, ret, seq_result, block_result, key_marker,
                 kv_key, schemes_result, scheme_name, security_type>>

\* as if protocols took the scalar shorthand that mediaType takes
get_multiple_values_start_shorthand(token) ==
  IF token.t.type = "Scalar"
  THEN /\ pc' = "get_flow_sequence"
       /\ values' = <<FlowSequenceEntry(token.t.val, token.m)>>
       /\ UNCHANGED <<ctx, rootVars, ret, seq_result, block_result, key_marker,
                      kv_key, schemes_result, scheme_name, security_type>>
  ELSE IF expect(token, "FlowSequenceStart").ok
  THEN EnterFlowSequence
  ELSE Return(expect(token, "FlowSequenceStart"))

get_multiple_values_start_on(token) ==
  IF expect(token, "FlowSequenceStart").ok
  THEN EnterFlowSequence
  ELSE Return(expect(token, "FlowSequenceStart"))
get_multiple_values_start ==
  /\ pc = "get_multiple_values_start"
  /\ \E t \in NextTokens :
       /\ Pull(t)
       /\ IF t = NoneToken THEN Panic ELSE get_multiple_values_start_on(Token(t))

get_single_or_multiple_values_on(token) ==
  ExpectThen(token, "Value", "get_single_or_multiple_values_first")
get_single_or_multiple_values ==
  /\ pc = "get_single_or_multiple_values"
  /\ \E t \in NextTokens :
       /\ Pull(t)
       /\ IF t = NoneToken THEN Panic
          ELSE get_single_or_multiple_values_on(Token(t))

\* protocols = Some(get_protocols(cursor)?) and
\* media_types = Some(get_media_types(cursor)?), once the entries are read
AssignSequence(field, entries) ==
  LET result == IF field = "protocols" THEN get_protocols(entries)
                ELSE get_media_types(entries)
  IN IF ~result.ok THEN Return(result)
     ELSE /\ protocols' = IF field = "protocols" THEN Some(result.v) ELSE protocols
          /\ media_types' = IF field = "media_types" THEN Some(result.v)
                            ELSE media_types
          /\ pc' = "parse_root_loop"
          /\ UNCHANGED <<title, version, description, base_uri, documentation,
                         security_schemes, ctx, localVars, ret>>

\* as if the bare scalar were refused and only a flow sequence taken
get_single_or_multiple_values_first_strict(token) ==
  CASE token.t.type = "FlowSequenceStart" -> EnterFlowSequence
    [] OTHER ->
         Return(Err(get_error(
           UnexpectedEntryMulti(<<"Scalar", "FlowSequenceStart">>,
                                get_token_def(token.t)),
           Some(token.m))))

get_single_or_multiple_values_first_on(token) ==
  CASE token.t.type = "Scalar" ->
         AssignSequence(ctx, <<FlowSequenceEntry(token.t.val, token.m)>>)
    [] token.t.type = "FlowSequenceStart" -> EnterFlowSequence
    [] OTHER ->
         Return(Err(get_error(
           UnexpectedEntryMulti(<<"Scalar", "FlowSequenceStart">>,
                                get_token_def(token.t)),
           Some(token.m))))
get_single_or_multiple_values_first ==
  /\ pc = "get_single_or_multiple_values_first"
  /\ \E t \in NextTokens :
       /\ Pull(t)
       /\ IF t = NoneToken THEN Panic
          ELSE get_single_or_multiple_values_first_on(Token(t))

\* as if every token that closes nothing and is no scalar were a separator
get_flow_sequence_skipping(token) ==
  CASE token.t.type = "Scalar" ->
         /\ values' = Append(values, FlowSequenceEntry(token.t.val, token.m))
         /\ UNCHANGED <<pc, ctx, rootVars, ret, seq_result, block_result,
                        key_marker, kv_key, schemes_result, scheme_name,
                        security_type>>
    [] token.t.type = "FlowSequenceEnd" -> AssignSequence(ctx, values)
    [] OTHER -> Goto("get_flow_sequence")

get_flow_sequence_on(token) ==
  CASE token.t.type = "Scalar" ->
         /\ values' = Append(values, FlowSequenceEntry(token.t.val, token.m))
         /\ UNCHANGED <<pc, ctx, rootVars, ret, seq_result, block_result,
                        key_marker, kv_key, schemes_result, scheme_name,
                        security_type>>
    [] token.t.type = "FlowEntry" -> Goto("get_flow_sequence")
    [] token.t.type = "FlowSequenceEnd" -> AssignSequence(ctx, values)
    [] OTHER ->
         Return(Err(get_error(
           UnexpectedEntryMulti(<<"FlowEntry", "FlowSequenceEnd">>,
                                get_token_def(token.t)),
           Some(token.m))))
get_flow_sequence ==
  /\ pc = "get_flow_sequence"
  /\ \E t \in NextTokens :
       /\ Pull(t)
       /\ IF t = NoneToken THEN Panic ELSE get_flow_sequence_on(Token(t))

(***************************************************************************)
(* get_multiple_sets_of_values, get_block_sequences, get_block_sequence,   *)
(* get_key_value; get_documentation maps the blocks once all are read.     *)
(***************************************************************************)
get_multiple_sets_of_values_on(token) ==
  ExpectThen(token, "Value", "get_multiple_sets_of_values_start")
get_multiple_sets_of_values ==
  /\ pc = "get_multiple_sets_of_values"
  /\ \E t \in NextTokens :
       /\ Pull(t)
       /\ IF t = NoneToken THEN Panic
          ELSE get_multiple_sets_of_values_on(Token(t))

get_multiple_sets_of_values_start_on(token) ==
  IF expect(token, "BlockSequenceStart").ok
  THEN /\ pc' = "get_block_sequences"
       /\ seq_result' = <<>>
       /\ UNCHANGED <<ctx, rootVars, ret, values, block_result, key_marker,
                      kv_key, schemes_result, scheme_name, security_type>>
  ELSE Return(expect(token, "BlockSequenceStart"))
get_multiple_sets_of_values_start ==
  /\ pc = "get_multiple_sets_of_values_start"
  /\ \E t \in NextTokens :
       /\ Pull(t)
       /\ IF t = NoneToken THEN Panic
          ELSE get_multiple_sets_of_values_start_on(Token(t))

\* documentation = Some(get_documentation(cursor)?), once the blocks are read
AssignDocumentation(result) ==
  IF "panic" \in DOMAIN result THEN Panic
  ELSE IF ~result.ok THEN Return(result)
  ELSE /\ documentation' = Some(result.v)
       /\ pc' = "parse_root_loop"
       /\ UNCHANGED <<title, version, description, base_uri, protocols,
                      media_types, security_schemes, ctx, localVars, ret>>

get_block_sequences_on(token) ==
  CASE token.t.type = "BlockEntry" -> Goto("get_block_sequence")
    [] token.t.type = "BlockEnd" ->
         \E result \in get_documentation(seq_result) : AssignDocumentation(result)
    [] OTHER ->
         Return(Err(get_error(
           UnexpectedEntryMulti(<<"BlockEntry", "BlockEnd">>,
                                get_token_def(token.t)),
           Some(token.m))))
get_block_sequences ==
  /\ pc = "get_block_sequences"
  /\ \E t \in NextTokens :
       /\ Pull(t)
       /\ IF t = NoneToken THEN Panic ELSE get_block_sequences_on(Token(t))

get_block_sequence_on(token) ==
  IF expect(token, "BlockMappingStart").ok
  THEN /\ pc' = "get_block_sequence_loop"
       /\ block_result' = EmptyMap
       /\ UNCHANGED <<ctx, rootVars, ret, values, seq_result, key_marker,
                      kv_key, schemes_result, scheme_name, security_type>>
  ELSE Return(expect(token, "BlockMappingStart"))
get_block_sequence ==
  /\ pc = "get_block_sequence"
  /\ \E t \in NextTokens :
       /\ Pull(t)
       /\ IF t = NoneToken THEN Panic ELSE get_block_sequence_on(Token(t))

get_block_sequence_loop_on(token) ==
  CASE token.t.type = "Key" ->
         /\ pc' = "get_key_value"
         /\ key_marker' = token.m
         /\ UNCHANGED <<ctx, rootVars, ret, values, seq_result, block_result,
                        kv_key, schemes_result, scheme_name, security_type>>
    [] token.t.type = "BlockEnd" ->
         /\ pc' = "get_block_sequences"
         /\ seq_result' = Append(seq_result, block_result)
         /\ UNCHANGED <<ctx, rootVars, ret, values, block_result, key_marker,
                        kv_key, schemes_result, scheme_name, security_type>>
    [] OTHER ->
         Return(Err(get_error(
           UnexpectedEntryMulti(<<"Key", "BlockEnd">>, get_token_def(token.t)),
           Some(token.m))))
get_block_sequence_loop ==
  /\ pc = "get_block_sequence_loop"
  /\ \E t \in NextTokens :
       /\ Pull(t)
       /\ IF t = NoneToken THEN Panic ELSE get_block_sequence_loop_on(Token(t))

get_key_value_on(token) ==
  LET key == get_scalar_value(token)
  IN IF ~key.ok THEN Return(key)
     ELSE /\ pc' = "get_key_value_expect"
          /\ kv_key' = key.v
          /\ UNCHANGED <<ctx, rootVars, ret, values, seq_result, block_result,
                         key_marker, schemes_result, scheme_name, security_type>>
get_key_value ==
  /\ pc = "get_key_value"
  /\ \E t \in NextTokens :
       /\ Pull(t)
       /\ IF t = NoneToken THEN Panic ELSE get_key_value_on(Token(t))

get_key_value_expect_on(token) ==
  ExpectThen(token, "Value", "get_key_value_value")
get_key_value_expect ==
  /\ pc = "get_key_value_expect"
  /\ \E t \in NextTokens :
       /\ Pull(t)
       /\ IF t = NoneToken THEN Panic ELSE get_key_value_expect_on(Token(t))

\* as if the entry kept the marker of its value, not of its Key token
get_key_value_value_at_scalar(token) ==
  LET value == get_scalar_value(token)
  IN IF ~value.ok THEN Return(value)
     ELSE /\ pc' = "get_block_sequence_loop"
          /\ block_result' = Insert(block_result, kv_key,
                                    BlockSequenceEntry(value.v, token.m))
          /\ UNCHANGED <<ctx, rootVars, ret, values, seq_result, key_marker,
                         kv_key, schemes_result, scheme_name, security_type>>

\* the value is read and get_block_sequence inserts the pair
get_key_value_value_on(token) ==
  LET value == get_scalar_value(token)
  IN IF ~value.ok THEN Return(value)
     ELSE /\ pc' = "get_block_sequence_loop"
          /\ block_result' = Insert(block_result, kv_key,
                                    BlockSequenceEntry(value.v, key_marker))
          /\ UNCHANGED <<ctx, rootVars, ret, values, seq_result, key_marker,
                         kv_key, schemes_result, scheme_name, security_type>>
get_key_value_value ==
  /\ pc = "get_key_value_value"
  /\ \E t \in NextTokens :
       /\ Pull(t)
       /\ IF t = NoneToken THEN Panic ELSE get_key_value_value_on(Token(t))

(***************************************************************************)
(* get_security_schemes and get_security_scheme.                           *)
(***************************************************************************)
SecurityScheme(t) == [security_type |-> t]

get_security_schemes_on(token) ==
  ExpectThen(token, "Value", "get_security_schemes_start")
get_security_schemes ==
  /\ pc = "get_security_schemes"
  /\ \E t \in NextTokens :
       /\ Pull(t)
       /\ IF t = NoneToken THEN Panic ELSE get_security_schemes_on(Token(t))

get_security_schemes_start_on(token) ==
  IF expect(token, "BlockMappingStart").ok
  THEN /\ pc' = "get_security_schemes_loop"
       /\ schemes_result' = EmptyMap
       /\ UNCHANGED <<ctx, rootVars, ret, values, seq_result, block_result,
                      key_marker, kv_key, scheme_name, security_type>>
  ELSE Return(expect(token, "BlockMappingStart"))
get_security_schemes_start ==
  /\ pc = "get_security_schemes_start"
  /\ \E t \in NextTokens :
       /\ Pull(t)
       /\ IF t = NoneToken THEN Panic ELSE get_security_schemes_start_on(Token(t))

get_security_schemes_loop_on(token) ==
  CASE token.t.type = "Key" -> Goto("get_security_schemes_key")
    [] token.t.type = "BlockEnd" ->
         /\ security_schemes' = Some(schemes_result)
         /\ pc' = "parse_root_loop"
         /\ UNCHANGED <<title, version, description, base_uri, protocols,
                        media_types, documentation, ctx, localVars, ret>>
    [] OTHER ->
         Return(Err(get_error(UnexpectedEntry("Key", get_token_def(token.t)),
                              Some(token.m))))
get_security_schemes_loop ==
  /\ pc = "get_security_schemes_loop"
  /\ \E t \in NextTokens :
       /\ Pull(t)
       /\ IF t = NoneToken THEN Panic ELSE get_security_schemes_loop_on(Token(t))

get_security_schemes_key_on(token) ==
  IF token.t.type = "Scalar"
  THEN /\ pc' = "get_security_scheme"
       /\ scheme_name' = token.t.val
       /\ UNCHANGED <<ctx, rootVars, ret, values, seq_result, block_result,
                      key_marker, kv_key, schemes_result, security_type>>
  ELSE Return(Err(get_error(UnexpectedEntry("Scalar", get_token_def(token.t)),
                            Some(token.m))))
get_security_schemes_key ==
  /\ pc = "get_security_schemes_key"
  /\ \E t \in NextTokens :
       /\ Pull(t)
       /\ IF t = NoneToken THEN Panic ELSE get_security_schemes_key_on(Token(t))

\* let mut security_type = None; cursor.expect(Value)?
get_security_scheme_on(token) ==
  IF expect(token, "Value").ok
  THEN /\ pc' = "get_security_scheme_start"
       /\ security_type' = None
       /\ UNCHANGED <<ctx, rootVars, ret, values, seq_result, block_result,
                      key_marker, kv_key, schemes_result, scheme_name>>
  ELSE Return(expect(token, "Value"))
get_security_scheme ==
  /\ pc = "get_security_scheme"
  /\ \E t \in NextTokens :
       /\ Pull(t)
       /\ IF t = NoneToken THEN Panic ELSE get_security_scheme_on(Token(t))

get_security_scheme_start_on(token) ==
  ExpectThen(token, "BlockMappingStart", "get_security_scheme_loop")
get_security_scheme_start ==
  /\ pc = "get_security_scheme_start"
  /\ \E t \in NextTokens :
       /\ Pull(t)
       /\ IF t = NoneToken THEN Panic ELSE get_security_scheme_start_on(Token(t))

\* at BlockEnd the scheme is built (security_type.unwrap()) and
\* get_security_schemes inserts it under the scheme's name
get_security_scheme_loop_on(token) ==
  CASE token.t.type = "Key" -> Goto("get_security_scheme_key")
    [] token.t.type = "BlockEnd" ->
         IF ~security_type.some THEN Panic
         ELSE /\ pc' = "get_security_schemes_loop"
              /\ schemes_result' = Insert(schemes_result, scheme_name,
                                          SecurityScheme(security_type.v))
              /\ UNCHANGED <<ctx, rootVars, ret, values, seq_result,
                             block_result, key_marker, kv_key, scheme_name,
                             security_type>>
    [] OTHER ->
         Return(Err(get_error(UnexpectedEntry("Key", get_token_def(token.t)),
                              Some(token.m))))
get_security_scheme_loop ==
  /\ pc = "get_security_scheme_loop"
  /\ \E t \in NextTokens :
       /\ Pull(t)
       /\ IF t = NoneToken THEN Panic ELSE get_security_scheme_loop_on(Token(t))

get_security_scheme_key_on(token) ==
  IF token.t.type = "Scalar"
  THEN IF token.t.val = s_type
       THEN Call("get_single_value", "security_type")
       ELSE Return(Err(get_error(UnexpectedKeyRoot(token.t.val, "DocumentRoot"),
                                 Some(token.m))))
  ELSE Return(Err(get_error(UnexpectedEntry("Scalar", get_token_def(token.t)),
                            Some(token.m))))
get_security_scheme_key ==
  /\ pc = "get_security_scheme_key"
  /\ \E t \in NextTokens :
       /\ Pull(t)
       /\ IF t = NoneToken THEN Panic ELSE get_security_scheme_key_on(Token(t))

(***************************************************************************)
(* The parser.                                                             *)
(***************************************************************************)
\* the caller parses the same text once more: a new cursor over the same
\* text, new locals
load_from_str_again ==
  /\ pc = "done"
  /\ previous = NotCalled
  /\ previous' = ret
  /\ armed' = FALSE
  /\ pos' = 0
  /\ pc' = "parse_raml_string"
  /\ ctx' = "none"
  /\ title' = None /\ version' = None /\ description' = None
  /\ base_uri' = None /\ protocols' = None /\ media_types' = None
  /\ documentation' = None /\ security_schemes' = None
  /\ values' = <<>> /\ seq_result' = <<>> /\ block_result' = EmptyMap
  /\ key_marker' = 0 /\ kv_key' = <<>>
  /\ schemes_result' = EmptyMap /\ scheme_name' = <<>> /\ security_type' = None
  /\ ret' = Running
  /\ UNCHANGED <<source, doc, stream>>

Next ==
  \/ parse_raml_string
  \/ parse_root
  \/ parse_root_mapping
  \/ parse_root_loop
  \/ parse_root_key
  \/ get_single_value
  \/ get_single_value_scalar
  \/ get_multiple_values
  \/ get_multiple_values_start
  \/ get_single_or_multiple_values
  \/ get_single_or_multiple_values_first
  \/ get_flow_sequence
  \/ get_multiple_sets_of_values
  \/ get_multiple_sets_of_values_start
  \/ get_block_sequences
  \/ get_block_sequence
  \/ get_block_sequence_loop
  \/ get_key_value
  \/ get_key_value_expect
  \/ get_key_value_value
  \/ get_security_schemes
  \/ get_security_schemes_start
  \/ get_security_schemes_loop
  \/ get_security_schemes_key
  \/ get_security_scheme
  \/ get_security_scheme_start
  \/ get_security_scheme_loop
  \/ get_security_scheme_key
  \/ load_from_str_again

Spec == Init /\ [][Next]_vars

\* the parser is sequential code that runs on: a step that can be taken is
\* taken
FairSpec == Spec /\ WF_vars(Next)

(***************************************************************************)
(* What the properties below say about a text, stated on its structure     *)
(* and independently of the parser.                                        *)
(***************************************************************************)
\* the first line of the text is the RAML comment line
MarkerPresent == Trim(FirstLine(source)) = RamlComment
\* the scanner yielded the rendering of doc
Undeviated == stream = Render(doc)
Finished == pc = "done"
Succeeded == Finished /\ ret.state = "returned" /\ ret.result.ok
FailedWith(message) ==
  Finished /\ ret = Returned(Err([error |-> message]))

RootKeys ==
  {s_title, s_version, s_description, s_baseUri, s_protocols, s_mediaType,
   s_documentation, s_securitySchemes}
HttpSpellings == {s_http, v_Http, <<"H", "T", "T", "P">>}
HttpsSpellings == {s_https, v_HTTPS, <<"H", "t", "t", "p", "s">>}
\* the scheme type a type string stands for
SchemeTypeOf ==
  (v_OAuth1 :> [variant |-> "OAuth1"]) @@ (s_oauth1 :> [variant |-> "OAuth1"])
  @@ (v_OAuth2 :> [variant |-> "OAuth2"])
  @@ (v_Basic :> [variant |-> "BasicAuthentication"])
  @@ (v_Digest :> [variant |-> "DigestAuthentication"])
  @@ (v_Pass :> [variant |-> "PassThrough"])
  @@ (v_xcustom :> [variant |-> "XOther", s |-> v_xcustom])
  @@ (v_XOther :> [variant |-> "XOther", s |-> <<"x", "-", "o", "t", "h", "e", "r">>])
  @@ (xDashPrefix :> [variant |-> "XOther", s |-> xDashPrefix])

Keys(pairs) == {pairs[i].k : i \in 1..Len(pairs)}
\* every key of the block has a scalar after its colon
Valued(pairs) == \A i \in 1..Len(pairs) : "v" \in DOMAIN pairs[i]
CompleteBlock(b) == Keys(b) = {s_title, s_content} /\ Valued(b)
\* a scheme as the parser takes it: type keys only, each a known type
\* (get_security_scheme takes no other key)
PlainScheme(s) ==
  /\ s.fields # <<>>
  /\ \A i \in 1..Len(s.fields) :
       s.fields[i].k = s_type /\ s.fields[i].v \in DOMAIN SchemeTypeOf

WellFormedEntry(e) ==
  CASE e.key \in {s_title, s_version, s_description, s_baseUri} ->
         e.value.shape = "scalar"
    [] e.key = s_protocols ->
         /\ e.value.shape = "flow"
         /\ e.value.items # <<>>
         /\ \A i \in 1..Len(e.value.items) :
              e.value.items[i] \in HttpSpellings \cup HttpsSpellings
    [] e.key = s_mediaType -> e.value.shape \in {"scalar", "flow"}
    [] e.key = s_documentation ->
         /\ e.value.shape = "blocks"
         /\ \A i \in 1..Len(e.value.blocks) : CompleteBlock(e.value.blocks[i])
    [] e.key = s_securitySchemes ->
         /\ e.value.shape = "schemes"
         /\ \A i \in 1..Len(e.value.schemes) : PlainScheme(e.value.schemes[i])
    [] OTHER -> FALSE
WellFormedUpTo(d, n) == \A i \in 1..n : WellFormedEntry(d[i])
WellFormed(d) == d # <<>> /\ WellFormedUpTo(d, Len(d))

HasKey(d, k) == \E i \in 1..Len(d) : d[i].key = k
\* the value of the last entry of d under key k
LastValue(d, k) ==
  d[CHOOSE i \in 1..Len(d) :
      d[i].key = k /\ \A j \in (i + 1)..Len(d) : d[j].key # k].value
LastPair(pairs, k) ==
  pairs[CHOOSE i \in 1..Len(pairs) :
          pairs[i].k = k /\ \A j \in (i + 1)..Len(pairs) : pairs[j].k # k].v

\* the index in the stream of the first token of entry i of d
RECURSIVE EntryStart(_, _)
EntryStart(d, i) ==
  IF i = 1 THEN 3 ELSE EntryStart(d, i - 1) + Len(RenderEntry(d[i - 1]))

\* the model a well-formed document stands for
ExpectedScalar(d, k) ==
  IF HasKey(d, k) THEN Some(LastValue(d, k).s) ELSE None
ExpectedProtocols(value) ==
  [i \in 1..Len(value.items) |->
     IF value.items[i] \in HttpSpellings THEN "Http" ELSE "Https"]
ExpectedMediaTypes(value) ==
  IF value.shape = "scalar" THEN <<value.s>> ELSE value.items
ExpectedDocumentation(value) ==
  [i \in 1..Len(value.blocks) |->
     [title |-> LastPair(value.blocks[i], s_title),
      content |-> LastPair(value.blocks[i], s_content)]]
ExpectedSchemes(value) ==
  [n \in {value.schemes[i].name : i \in 1..Len(value.schemes)} |->
     LET last == CHOOSE i \in 1..Len(value.schemes) :
                   /\ value.schemes[i].name = n
                   /\ \A j \in (i + 1)..Len(value.schemes) :
                        value.schemes[j].name # n
     IN [security_type |-> SchemeTypeOf[LastPair(value.schemes[last].fields, s_type)]]]
ExpectedOf(d, k, F(_)) == IF HasKey(d, k) THEN Some(F(LastValue(d, k))) ELSE None
ExpectedModel(d) ==
  [title |-> LastValue(d, s_title).s,
   version |-> ExpectedScalar(d, s_version),
   description |-> ExpectedScalar(d, s_description),
   base_uri |-> ExpectedScalar(d, s_baseUri),
   protocols |-> ExpectedOf(d, s_protocols, ExpectedProtocols),
   media_types |-> ExpectedOf(d, s_mediaType, ExpectedMediaTypes),
   documentation |-> ExpectedOf(d, s_documentation, ExpectedDocumentation),
   security_schemes |-> ExpectedOf(d, s_securitySchemes, ExpectedSchemes)]

\* sanity of the whole: every well-formed titled document yields its model
WholeModel ==
  (Finished /\ MarkerPresent /\ Undeviated /\ WellFormed(doc) /\ HasKey(doc, s_title))
    => (Succeeded /\ ret.result.v = ExpectedModel(doc))

(***************************************************************************)
(* C1: a text whose first line, trimmed, is not exactly "#%RAML 1.0"       *)
(* (the empty text included) makes load_from_str return the missing        *)
(* version comment error, without a position, whatever follows the first   *)
(* line, and no token is pulled before it is returned.                     *)
(***************************************************************************)
C1_MissingVersionComment ==
  (pc # "parse_raml_string" /\ ~MarkerPresent)
    => /\ FailedWith(<<Lit("Document must start with the following RAML comment line: #%RAML 1.0")>>)
       /\ pos = 0
C1_Witness ==
  /\ Finished /\ ~MarkerPresent /\ source # <<>> /\ Len(doc) = 2 /\ pos = 0
  /\ ret.state = "returned"

C3_MissingTitle ==
  (Finished /\ MarkerPresent /\ Undeviated /\ WellFormed(doc)
   /\ ~HasKey(doc, s_title))
    => /\ FailedWith(<<Lit("Error parsing "), Lit("document root"),
                       Lit(". Missing field: "), Str(s_title)>>)
       /\ pos = Len(stream) - 1
       /\ stream[pos] = Tok("BlockEnd")
C3_Witness ==
  /\ Finished /\ MarkerPresent /\ Undeviated /\ WellFormed(doc)
  /\ ~HasKey(doc, s_title) /\ Len(doc) = 2
  /\ ret.state = "returned" /\ ~ret.result.ok

(***************************************************************************)
(* C4: whenever the root loop has read a Key and the token after it is a   *)
(* scalar that is none of the eight root key names, parsing fails with the *)
(* unexpected-key error of the document root, naming that scalar and       *)
(* positioned at it; the key is never skipped, whether or not title was    *)
(* seen and whatever follows.                                              *)
(***************************************************************************)
C4_UnknownRootKey ==
  [][(/\ pc = "parse_root_key"
      /\ pos' = pos + 1
      /\ pos' <= Len(stream')
      /\ stream'[pos'].type = "Scalar"
      /\ stream'[pos'].val \notin RootKeys)
     => (/\ pc' = "done"
         /\ ret' = Returned(Err([error |->
                      <<Lit("Unexpected field found at the "), Lit("document root"),
                        Lit(": "), Str(stream'[pos'].val), At(pos')>>])))]_vars
C4_Witness ==
  /\ FailedWith(<<Lit("Unexpected field found at the "), Lit("document root"),
                  Lit(": "), Str(v_unknown), At(pos)>>)
  /\ title.some
  /\ pos < Len(stream) - 2

(***************************************************************************)
(* C5: a non-empty protocols flow sequence whose scalars all read http or  *)
(* https, letter case ignored, gives a protocols list of the same length   *)
(* and order, its i-th element Http or Https as the i-th scalar reads.     *)
(***************************************************************************)
ValidProtocols(value) ==
  /\ value.shape = "flow"
  /\ value.items # <<>>
  /\ \A i \in 1..Len(value.items) :
       value.items[i] \in HttpSpellings \cup HttpsSpellings
C5_ProtocolsLoaded ==
  (Finished /\ MarkerPresent /\ Undeviated /\ HasKey(doc, s_protocols)
   /\ ValidProtocols(LastValue(doc, s_protocols)))
    => /\ Succeeded =>
            ret.result.v.protocols
              = Some(ExpectedProtocols(LastValue(doc, s_protocols)))
       /\ (WellFormed(doc) /\ HasKey(doc, s_title)) => Succeeded
C5_Witness ==
  /\ Succeeded /\ Undeviated
  /\ doc = <<TitleA, Entry(s_protocols, FlowValue(<<s_http, v_HTTPS>>))>>
  /\ ret.result.v.protocols = Some(<<"Http", "Https">>)

(***************************************************************************)
(* C6: a protocols flow sequence that yields no scalar makes parsing fail  *)
(* with the empty-protocols error, rendered "Error parsing document root.  *)
(* Protocols must not be empty", without position; no model holds an empty *)
(* protocols list.                                                         *)
(***************************************************************************)
\* entry i is the first entry of d that is not well-formed
FirstIllFormed(d, i) ==
  i \in 1..Len(d) /\ WellFormedUpTo(d, i - 1) /\ ~WellFormedEntry(d[i])
C6_EmptyProtocols ==
  /\ \A i \in 1..Len(doc) :
       (/\ Finished /\ MarkerPresent /\ Undeviated
        /\ FirstIllFormed(doc, i)
        /\ doc[i] = Entry(s_protocols, FlowValue(<<>>)))
         => /\ FailedWith(<<Lit("Error parsing document root. Protocols must not be empty")>>)
            /\ pos = EntryStart(doc, i) + 4
  /\ Succeeded => ret.result.v.protocols # Some(<<>>)
  /\ protocols # Some(<<>>)
C6_Witness ==
  /\ FailedWith(<<Lit("Error parsing document root. Protocols must not be empty")>>)
  /\ Undeviated
  /\ doc = <<TitleA, Entry(s_protocols, FlowValue(<<>>))>>

(***************************************************************************)
(* C7: a non-empty protocols flow sequence with a scalar that reads        *)
(* neither http nor https makes parsing fail with the unexpected-protocol  *)
(* error, positioned at the first such scalar in list order; no protocols  *)
(* list comes of it.                                                       *)
(***************************************************************************)
BadProtocolAt(items, j) ==
  /\ j \in 1..Len(items)
  /\ items[j] \notin HttpSpellings \cup HttpsSpellings
  /\ \A k \in 1..(j - 1) : items[k] \in HttpSpellings \cup HttpsSpellings
C7_UnexpectedProtocol ==
  \A i \in 1..Len(doc) :
    (/\ Finished /\ MarkerPresent /\ Undeviated
     /\ FirstIllFormed(doc, i)
     /\ doc[i].key = s_protocols /\ doc[i].value.shape = "flow")
      => \A j \in 1..Len(doc[i].value.items) :
           BadProtocolAt(doc[i].value.items, j)
             => /\ FailedWith(<<Lit("Error parsing document root. Unexpected protocol"),
                                At(EntryStart(doc, i) + 2 + 2 * j)>>)
                /\ protocols = (IF \E k \in 1..(i - 1) : doc[k].key = s_protocols
                                THEN Some(ExpectedProtocols(
                                       LastValue(SubSeq(doc, 1, i - 1), s_protocols)))
                                ELSE None)
C7_Witness ==
  /\ Finished /\ Undeviated
  /\ doc = <<TitleA, Entry(s_protocols, FlowValue(<<v_HTTPS, v_ftp>>))>>
  /\ ret.state = "returned" /\ ~ret.result.ok
  /\ protocols = None

(***************************************************************************)
(* C8: protocols has no scalar shorthand: when the token after the Value   *)
(* of a protocols key is not FlowSequenceStart, parsing fails with the     *)
(* unexpected-entry error, expected Flow-Sequence-Start, found the kind of *)
(* that token, positioned at that token.                                   *)
(***************************************************************************)
C8_ProtocolsNoShorthand ==
  [][(/\ pc = "get_multiple_values_start"
      /\ pos' = pos + 1
      /\ pos' <= Len(stream')
      /\ stream'[pos'].type # "FlowSequenceStart")
     => (/\ pc' = "done"
         /\ ret' = Returned(Err(get_error(
                      UnexpectedEntry("FlowSequenceStart", stream'[pos'].type),
                      Some(pos')))))]_vars
C8_Witness ==
  /\ FailedWith(<<Lit("Unexpected entry found. Expected "),
                  Lit("Flow-Sequence-Start"), Lit(", Found "), Lit("Scalar"),
                  At(pos)>>)
  /\ Undeviated
  /\ doc = <<TitleA, Entry(s_protocols, ScalarValue(s_http))>>
  /\ pos = 10

\* d with every bare-scalar mediaType written as a one-element flow sequence
OneElementFlows(d) ==
  [i \in 1..Len(d) |->
     IF d[i].key = s_mediaType /\ d[i].value.shape = "scalar"
     THEN Entry(s_mediaType, FlowValue(<<d[i].value.s>>))
     ELSE d[i]]

(***************************************************************************)
(* C9: a mediaType given as the bare scalar s and one given as the flow    *)
(* sequence [s] give equal models (the model of a document is the model of *)
(* the document with s written as [s]) whose media types list is [s]; a    *)
(* longer flow sequence gives its scalars verbatim, in order.              *)
(***************************************************************************)
C9_MediaTypeShapes ==
  (Finished /\ MarkerPresent /\ Undeviated /\ WellFormed(doc)
   /\ HasKey(doc, s_title) /\ HasKey(doc, s_mediaType))
    => LET value == LastValue(doc, s_mediaType)
       IN /\ Succeeded
          /\ ret.result.v = ExpectedModel(OneElementFlows(doc))
          /\ value.shape = "scalar"
               => ret.result.v.media_types = Some(<<value.s>>)
          /\ value.shape = "flow"
               => ret.result.v.media_types = Some(value.items)
C9_Witness ==
  /\ Succeeded /\ MarkerPresent /\ Undeviated
  /\ doc = <<TitleA, Entry(s_mediaType, ScalarValue(v_B))>>
  /\ ret.result.v.media_types = Some(<<v_B>>)

(***************************************************************************)
(* C10: a documentation block sequence of n mappings, each holding exactly *)
(* the keys title and content in either order, gives a documentation list  *)
(* of n entries whose i-th entry carries the title and the content of the  *)
(* i-th block.                                                             *)
(***************************************************************************)
C10_DocumentationLoaded ==
  (Finished /\ MarkerPresent /\ Undeviated /\ WellFormed(doc)
   /\ HasKey(doc, s_title) /\ HasKey(doc, s_documentation))
    => LET blocks == LastValue(doc, s_documentation).blocks
       IN /\ Succeeded
          /\ ret.result.v.documentation.some
          /\ Len(ret.result.v.documentation.v) = Len(blocks)
          /\ \A i \in 1..Len(blocks) :
               /\ ret.result.v.documentation.v[i].title
                    = LastPair(blocks[i], s_title)
               /\ ret.result.v.documentation.v[i].content
                    = LastPair(blocks[i], s_content)
C10_Witness ==
  /\ Succeeded /\ MarkerPresent /\ Undeviated
  /\ doc = <<TitleA,
             Entry(s_documentation,
                   BlocksValue(<<<<Pair(s_content, v_a), Pair(s_title, v_B)>>,
                                 <<Pair(s_title, v_a), Pair(s_content, v_B)>>>>))>>
  /\ Len(ret.result.v.documentation.v) = 2
  /\ ret.result.v.documentation.v[1] = RamlDocumentation(v_B, v_a)

\* entry e of d is a documentation block sequence, the first entry of d that
\* is not well-formed, and every key of its blocks has a scalar value
DocumentationAt(d, e) ==
  /\ FirstIllFormed(d, e)
  /\ d[e].key = s_documentation
  /\ d[e].value.shape = "blocks"
  /\ \A b \in 1..Len(d[e].value.blocks) : Valued(d[e].value.blocks[b])
\* block b is the first of the blocks that is not complete
FirstIncomplete(blocks, b) ==
  /\ b \in 1..Len(blocks)
  /\ ~CompleteBlock(blocks[b])
  /\ \A j \in 1..(b - 1) : CompleteBlock(blocks[j])
UnexpectedKeys(block) == Keys(block) \ {s_title, s_content}
\* the index in the stream of the BlockEntry of block b of entry e
RECURSIVE BlockStart(_, _, _)
BlockStart(d, e, b) ==
  IF b = 1 THEN EntryStart(d, e) + 4
  ELSE BlockStart(d, e, b - 1) + Len(RenderBlock(d[e].value.blocks[b - 1]))
\* the index in the stream of the Key token of the entry that gives key k
\* its value in block b (the last one under k), the block's keys all valued
KeyToken(d, e, b, k) ==
  LET block == d[e].value.blocks[b]
      last == CHOOSE p \in 1..Len(block) :
                block[p].k = k /\ \A q \in (p + 1)..Len(block) : block[q].k # k
  IN BlockStart(d, e, b) + 2 + 4 * (last - 1)

C13_MissingDocumentationContent ==
  /\ \A e \in 1..Len(doc) :
       (/\ Finished /\ MarkerPresent /\ Undeviated
        /\ DocumentationAt(doc, e))
         => \A b \in 1..Len(doc[e].value.blocks) :
              (/\ FirstIncomplete(doc[e].value.blocks, b)
               /\ Keys(doc[e].value.blocks[b]) = {s_title})
                => (ret.state = "returned" /\ ~ret.result.ok)
  /\ (Undeviated /\ documentation.some)
       => \E e \in 1..Len(doc) :
            /\ doc[e].key = s_documentation
            /\ doc[e].value.shape = "blocks"
            /\ Len(documentation.v) = Len(doc[e].value.blocks)
            /\ \A b \in 1..Len(doc[e].value.blocks) :
                 {s_title, s_content} \subseteq Keys(doc[e].value.blocks[b])

(***************************************************************************)
(* C14: the type of a security scheme is read without regard to letter     *)
(* case: "OAuth 1.0", "OAuth 2.0", "Basic Authentication", "Digest         *)
(* Authentication" and "Pass Through" give their variants, any other       *)
(* string whose lower-cased form starts with "x-" gives the escape variant *)
(* carrying the lower-cased string, and every remaining string fails with  *)
(* the invalid scheme type error.                                          *)
(***************************************************************************)
C14_SchemeTypeParsing ==
  [][(/\ pc = "get_single_value_scalar"
      /\ ctx = "security_type"
      /\ pos' = pos + 1
      /\ pos' <= Len(stream')
      /\ stream'[pos'].type = "Scalar")
     => IF stream'[pos'].val \in DOMAIN SchemeTypeOf
        THEN /\ security_type' = Some(SchemeTypeOf[stream'[pos'].val])
             /\ ret' = Running
        ELSE /\ pc' = "done"
             /\ ret'.state = "returned"
             /\ ~ret'.result.ok
             /\ ret'.result.e.error[1]
                  = Lit("Error parsing security scheme. Unexpected type")]_vars
C14_Witness ==
  /\ Succeeded /\ MarkerPresent /\ Undeviated
  /\ doc = <<TitleA,
             Entry(s_securitySchemes,
                   SchemesValue(<<Scheme(v_s1, <<Pair(s_type, v_XOther)>>)>>))>>
  /\ ret.result.v.security_schemes.v[v_s1].security_type
       = [variant |-> "XOther", s |-> <<"x", "-", "o", "t", "h", "e", "r">>]

\* entry e of d is a securitySchemes mapping, the first entry of d that is
\* not well-formed, and scheme s is the first of its schemes that is not plain
SchemeAt(d, e, s) ==
  /\ FirstIllFormed(d, e)
  /\ d[e].key = s_securitySchemes
  /\ d[e].value.shape = "schemes"
  /\ s \in 1..Len(d[e].value.schemes)
  /\ ~PlainScheme(d[e].value.schemes[s])
  /\ \A j \in 1..(s - 1) : PlainScheme(d[e].value.schemes[j])
SchemeKeys == {s_type, s_displayName, s_description}

(***************************************************************************)
(* C15: a security scheme block that reaches its BlockEnd without a type   *)
(* key having been read makes parsing fail with "Error parsing security    *)
(* scheme. Missing field: type", and no SecurityScheme is produced without *)
(* a scheme type.                                                          *)
(***************************************************************************)
C15_MissingSchemeType ==
  /\ \A e \in 1..Len(doc) : \A s \in 1..MaxSchemes :
       (/\ Finished /\ MarkerPresent /\ Undeviated
        /\ SchemeAt(doc, e, s)
        /\ doc[e].value.schemes[s].fields # <<>>
        /\ Keys(doc[e].value.schemes[s].fields) \subseteq SchemeKeys \ {s_type})
         => FailedWith(<<Lit("Error parsing "), Lit("security scheme"),
                         Lit(". Missing field: "), Str(s_type)>>)
  /\ \A n \in DOMAIN schemes_result : "security_type" \in DOMAIN schemes_result[n]

\* a scheme with a known type and, next to it, only displayName and
\* description keys
DescribedScheme(s) ==
  /\ s_type \in Keys(s.fields)
  /\ Keys(s.fields) \subseteq SchemeKeys
  /\ Valued(s.fields)
  /\ \A i \in 1..Len(s.fields) :
       s.fields[i].k = s_type => s.fields[i].v \in DOMAIN SchemeTypeOf
OptionalField(fields, k) ==
  IF k \in Keys(fields) THEN Some(LastPair(fields, k)) ELSE None

(***************************************************************************)
(* C16: inside a security scheme block the keys displayName and            *)
(* description are each accepted with a single scalar value and stored as  *)
(* the scheme's display name and description; a scheme in which they do    *)
(* not occur has both set to none.                                         *)
(***************************************************************************)
C16_SchemeDisplayNameAndDescription ==
  \A e \in 1..Len(doc) :
    (/\ Finished /\ MarkerPresent /\ Undeviated
     /\ HasKey(doc, s_title)
     /\ \A i \in 1..Len(doc) : i # e => WellFormedEntry(doc[i])
     /\ doc[e].key = s_securitySchemes
     /\ doc[e].value.shape = "schemes"
     /\ \A s \in 1..Len(doc[e].value.schemes) :
          DescribedScheme(doc[e].value.schemes[s]))
      => /\ Succeeded
         /\ \A s \in 1..Len(doc[e].value.schemes) :
              LET scheme == doc[e].value.schemes[s]
                  loaded == ret.result.v.security_schemes.v[scheme.name]
              IN (\A j \in (s + 1)..Len(doc[e].value.schemes) :
                    doc[e].value.schemes[j].name # scheme.name)
                 => /\ {"display_name", "description"} \subseteq DOMAIN loaded
                    /\ loaded.display_name
                         = OptionalField(scheme.fields, s_displayName)
                    /\ loaded.description
                         = OptionalField(scheme.fields, s_description)

(***************************************************************************)
(* C17: a key other than type, displayName and description inside a        *)
(* security scheme block makes parsing fail with the unexpected-key error  *)
(* whose field is that key and whose level is the security scheme, not the *)
(* document root, positioned at the key scalar.                            *)
(***************************************************************************)
C17_UnknownSchemeKey ==
  [][(/\ pc = "get_security_scheme_key"
      /\ pos' = pos + 1
      /\ pos' <= Len(stream')
      /\ stream'[pos'].type = "Scalar"
      /\ stream'[pos'].val \notin SchemeKeys)
     => (/\ pc' = "done"
         /\ ret' = Returned(Err([error |->
                      <<Lit("Unexpected field found at the "),
                        Lit("security scheme"), Lit(": "),
                        Str(stream'[pos'].val), At(pos')>>])))]_vars

(***************************************************************************)
(* C18: a document that consists only of the version comment line, its     *)
(* token stream StreamStart followed by StreamEnd, fails with the missing  *)
(* title error of the document root.                                       *)
(***************************************************************************)
C18_EmptyBody ==
  (Finished /\ MarkerPresent /\ Undeviated /\ doc = <<>>)
    => FailedWith(<<Lit("Error parsing "), Lit("document root"),
                    Lit(". Missing field: "), Str(s_title)>>)

(***************************************************************************)
(* C19: every document model returned on success has a non-empty title; a  *)
(* root mapping whose title is the empty scalar is never a successful      *)
(* parse.                                                                  *)
(***************************************************************************)
C19_TitleNotEmpty ==
  Succeeded => ret.result.v.title # <<>>

\* the index in the stream of the scalar of the first key of block b that is
\* neither title nor content, the block's keys all valued
FirstUnexpectedKey(d, e, b) ==
  LET block == d[e].value.blocks[b]
      first == CHOOSE p \in 1..Len(block) :
                 /\ block[p].k \notin {s_title, s_content}
                 /\ \A q \in 1..(p - 1) : block[q].k \in {s_title, s_content}
  IN BlockStart(d, e, b) + 2 + 4 * (first - 1) + 1

(***************************************************************************)
(* C20: parsing is fail-fast in document order: of several errors in a     *)
(* document the one met first in the token stream is returned, and no      *)
(* token after the first offending token is pulled before it is returned;  *)
(* an invalid key in an early documentation block is reported before any   *)
(* defect in a later block.                                                *)
(***************************************************************************)
C20_FailFast ==
  \A e \in 1..Len(doc) :
    (/\ Finished /\ MarkerPresent /\ Undeviated
     /\ FirstIllFormed(doc, e)
     /\ doc[e].key = s_documentation
     /\ doc[e].value.shape = "blocks")
      => \A b \in 1..Len(doc[e].value.blocks) :
           (/\ FirstIncomplete(doc[e].value.blocks, b)
            /\ Valued(doc[e].value.blocks[b])
            /\ UnexpectedKeys(doc[e].value.blocks[b]) # {})
             => /\ \E k \in UnexpectedKeys(doc[e].value.blocks[b]) :
                     FailedWith(<<Lit("Unexpected field found at the "),
                                  Lit("documentation"), Lit(": "), Str(k),
                                  At(KeyToken(doc, e, b, k))>>)
                /\ pos <= FirstUnexpectedKey(doc, e, b)

(***************************************************************************)
(* C21: parsing is deterministic: parsing the same text twice gives equal  *)
(* outcomes, equal models on success and the same error message on         *)
(* failure, for every text, documentation blocks with several keys         *)
(* included.                                                               *)
(***************************************************************************)
C21_Deterministic ==
  (Finished /\ previous # NotCalled) => ret = previous

\* the scanner stopped on a scan error: a pull found nothing although no
\* StreamEnd had been yielded
ScanFailed ==
  /\ pos > Len(stream)
  /\ stream = <<>> \/ stream[Len(stream)].type # "StreamEnd"

(***************************************************************************)
(* C22: when the tokenizer fails with a scan error while the grammar is    *)
(* pulling tokens, parsing returns an error value to the caller (an        *)
(* "invalid document" error wrapping the tokenizer's message): a scan      *)
(* failure is a recoverable, typed error.                                  *)
(***************************************************************************)
C22_ScanErrorReturned ==
  (Finished /\ ScanFailed) => (ret.state = "returned" /\ ~ret.result.ok)

(***************************************************************************)
(* C23: value-domain errors carry the position of the offending scalar: an *)
(* invalid scheme type error returned for a type value is positioned at    *)
(* that type scalar.                                                       *)
(***************************************************************************)
C23_SchemeTypePositioned ==
  [][(/\ pc = "get_single_value_scalar"
      /\ ctx = "security_type"
      /\ pos' = pos + 1
      /\ pos' <= Len(stream')
      /\ stream'[pos'].type = "Scalar"
      /\ stream'[pos'].val \notin DOMAIN SchemeTypeOf)
     => ret' = Returned(Err([error |->
                  <<Lit("Error parsing security scheme. Unexpected type"),
                    At(pos')>>]))]_vars

\* the scanner's stream is complete: its last token is StreamEnd
StreamEnded == stream # <<>> /\ stream[Len(stream)].type = "StreamEnd"

(***************************************************************************)
(* C24: on a token stream that ends with StreamEnd the parser never asks   *)
(* for a token after it has consumed StreamEnd: every grammar state that   *)
(* reads StreamEnd returns an error without a further pull.                *)
(***************************************************************************)
C24_NoPullAfterStreamEnd ==
  /\ [](StreamEnded => pos <= Len(stream))
  /\ [][(/\ pos' = pos + 1
         /\ pos' <= Len(stream')
         /\ stream'[pos'].type = "StreamEnd")
        => (/\ pc' = "done"
            /\ ret'.state = "returned"
            /\ ~ret'.result.ok)]_vars
C24_Witness ==
  /\ Finished /\ StreamEnded /\ ~Undeviated
  /\ pos = Len(stream) /\ pos > 8
  /\ ret.state = "returned" /\ ~ret.result.ok
  /\ doc = <<TitleA, Entry(s_mediaType, FlowValue(<<v_a, v_B>>))>>

\* the entries of d under key k
Occurrences(d, k) == {i \in 1..Len(d) : d[i].key = k}
\* the field of a model that root key k fills
FieldOf(model, k) ==
  CASE k = s_title -> model.title
    [] k = s_version -> model.version
    [] k = s_description -> model.description
    [] k = s_baseUri -> model.base_uri
    [] k = s_protocols -> model.protocols
    [] k = s_mediaType -> model.media_types
    [] k = s_documentation -> model.documentation
    [] k = s_securitySchemes -> model.security_schemes
\* what the field that root key k fills holds once value was read under k
ValueOf(k, value) ==
  CASE k = s_title -> value.s
    [] k \in {s_version, s_description, s_baseUri} -> Some(value.s)
    [] k = s_protocols -> Some(ExpectedProtocols(value))
    [] k = s_mediaType -> Some(ExpectedMediaTypes(value))
    [] k = s_documentation -> Some(ExpectedDocumentation(value))
    [] k = s_securitySchemes -> Some(ExpectedSchemes(value))
\* the schemes of a list that carry name n
Named(schemes, n) == {i \in 1..Len(schemes) : schemes[i].name = n}
Max(S) == CHOOSE i \in S : \A j \in S : j <= i

(***************************************************************************)
(* C25: duplicate keys are last-write-wins: a recognised root key that     *)
(* occurs more than once does not make parsing fail and the model holds    *)
(* the value of its last occurrence; a scheme name repeated inside         *)
(* securitySchemes keeps only the last scheme parsed under that name.      *)
(***************************************************************************)
C25_LastWriteWins ==
  (/\ Finished /\ MarkerPresent /\ Undeviated
   /\ WellFormed(doc) /\ HasKey(doc, s_title))
  => /\ Succeeded
     /\ \A k \in RootKeys :
          Cardinality(Occurrences(doc, k)) > 1
            => FieldOf(ret.result.v, k)
                 = ValueOf(k, doc[Max(Occurrences(doc, k))].value)
     /\ HasKey(doc, s_securitySchemes)
          => LET schemes == LastValue(doc, s_securitySchemes).schemes
                 kept == ret.result.v.security_schemes.v
             IN /\ DOMAIN kept = {schemes[i].name : i \in 1..Len(schemes)}
                /\ \A n \in DOMAIN kept :
                     kept[n].security_type =
                       SchemeTypeOf[LastPair(schemes[Max(Named(schemes, n))].fields,
                                             s_type)]
C25_Witness ==
  /\ Succeeded /\ Undeviated
  /\ doc = <<Entry(s_title, ScalarValue(v_B)),
             Entry(s_securitySchemes,
                   SchemesValue(<<Scheme(v_s1, <<Pair(s_type, v_OAuth2)>>),
                                  Scheme(v_s1, <<Pair(s_type, v_xcustom)>>)>>)),
             TitleA>>
  /\ ret.result.v.title = v_a
  /\ ret.result.v.security_schemes =
       Some(v_s1 :> [security_type |-> [variant |-> "XOther", s |-> v_xcustom]])

\* the positions of the parser at which it calls expect, and the kind asked
ExpectedKind ==
  [p \in {"parse_root"} |-> "StreamStart"]
  @@ [p \in {"parse_root_mapping", "get_block_sequence",
             "get_security_schemes_start", "get_security_scheme_start"}
        |-> "BlockMappingStart"]
  @@ [p \in {"get_single_value", "get_multiple_values",
             "get_single_or_multiple_values", "get_multiple_sets_of_values",
             "get_key_value_expect", "get_security_schemes",
             "get_security_scheme"} |-> "Value"]
  @@ [p \in {"get_multiple_values_start"} |-> "FlowSequenceStart"]
  @@ [p \in {"get_multiple_sets_of_values_start"} |-> "BlockSequenceStart"]
\* a step of expect(kind) to which the scanner yielded a token
ExpectStep ==
  (pc \in DOMAIN ExpectedKind /\ pos' <= Len(stream'))
    => /\ pos' = pos + 1
       /\ IF stream'[pos'].type = ExpectedKind[pc]
          THEN pc' # "done" /\ ret' = Running
          ELSE /\ pc' = "done"
               /\ ret' = Returned(Err(get_error(
                            UnexpectedEntry(ExpectedKind[pc], stream'[pos'].type),
                            Some(pos'))))
\* entry i of d is the first ill-formed one and is key k with nothing nested
EmptyKeyAt(d, i, k) ==
  FirstIllFormed(d, i) /\ d[i] = Entry(k, NullValue)
EmptyKeyFails(found(_, _)) ==
  \A i \in 1..Len(doc) :
    /\ (Finished /\ MarkerPresent /\ Undeviated
        /\ EmptyKeyAt(doc, i, s_documentation))
         => FailedWith(<<Lit("Unexpected entry found. Expected "),
                         Lit("Block-Sequence-Start"), Lit(", Found "),
                         Lit(found(doc, i)), At(EntryStart(doc, i) + 3)>>)
    /\ (Finished /\ MarkerPresent /\ Undeviated
        /\ EmptyKeyAt(doc, i, s_securitySchemes))
         => FailedWith(<<Lit("Unexpected entry found. Expected "),
                         Lit("Block-Mapping-Start"), Lit(", Found "),
                         Lit(found(doc, i)), At(EntryStart(doc, i) + 3)>>)
\* what follows the colon of an entry without a value
FoundAfter(d, i) == IF i = Len(d) THEN "Block-End" ELSE "Key"
FoundBlockEnd(d, i) == "Block-End"

(***************************************************************************)
(* C26: expect(kind) pulls exactly one token; it succeeds iff that token's *)
(* kind equals kind, and otherwise returns UnexpectedEntry with expected   *)
(* kind and found the pulled token's kind, at the pulled token's position. *)
(* Hence a documentation key or a securitySchemes key with no nested       *)
(* entries fails with expected Block-Sequence-Start, respectively          *)
(* Block-Mapping-Start, and found the kind of the token after its colon:   *)
(* Block-End when the key is the last of the document, Key when another    *)
(* key follows.                                                            *)
(***************************************************************************)
C26_Expect ==
  /\ [][ExpectStep]_vars
  /\ [](EmptyKeyFails(FoundAfter))
C26_Witness ==
  /\ doc = <<TitleA, Entry(s_documentation, NullValue)>>
  /\ Undeviated /\ pos = 10
  /\ FailedWith(<<Lit("Unexpected entry found. Expected "),
                  Lit("Block-Sequence-Start"), Lit(", Found "),
                  Lit("Block-End"), At(10)>>)
\* C26 as stated: found is Block-End wherever the key stands
C26_ExpectFoundBlockEnd ==
  /\ [][ExpectStep]_vars
  /\ [](EmptyKeyFails(FoundBlockEnd))

\* the Scalar tokens among stream[a..b], each with its index, in order
RECURSIVE ScalarsIn(_, _)
ScalarsIn(a, b) ==
  IF b < a THEN <<>>
  ELSE ScalarsIn(a, b - 1)
       \o (IF stream[b].type = "Scalar"
           THEN <<[value |-> stream[b].val, marker |-> b]>> ELSE <<>>)
\* the token that opened the flow sequence being read
FlowStart == Max({i \in 1..pos : stream[i].type = "FlowSequenceStart"})
ValuesOf(entries) == [i \in 1..Len(entries) |-> entries[i].value]
\* a step of get_flow_sequence to which the scanner yielded a token
FlowSequenceStep ==
  (pc = "get_flow_sequence" /\ pos' = pos + 1 /\ pos' <= Len(stream'))
    => LET kind == stream'[pos'].type
           read == ScalarsIn(FlowStart + 1, pos)
       IN CASE kind = "Scalar" ->
                 /\ values' = Append(values, [value |-> stream'[pos'].val,
                                              marker |-> pos'])
                 /\ pc' = pc /\ ret' = Running
            [] kind = "FlowEntry" ->
                 values' = values /\ pc' = pc /\ ret' = Running
            [] kind = "FlowSequenceEnd" ->
                 IF ctx = "media_types"
                 THEN /\ media_types' = Some(ValuesOf(read))
                      /\ pc' # "done" /\ ret' = Running
                 ELSE LET bad == {i \in 1..Len(read) :
                                    read[i].value \notin
                                      HttpSpellings \cup HttpsSpellings}
                      IN CASE read = <<>> ->
                                ret' = Returned(Err([error |->
                                  <<Lit("Error parsing document root. Protocols must not be empty")>>]))
                           [] read # <<>> /\ bad = {} ->
                                /\ protocols'.some
                                /\ Len(protocols'.v) = Len(read)
                                /\ ret' = Running
                           [] OTHER ->
                                ret' = Returned(Err([error |->
                                  <<Lit("Error parsing document root. Unexpected protocol"),
                                    At(read[CHOOSE i \in bad :
                                              \A j \in bad : i <= j].marker)>>]))
            [] OTHER ->
                 /\ pc' = "done"
                 /\ ret' = Returned(Err(get_error(
                              UnexpectedEntryMulti(<<"FlowEntry", "FlowSequenceEnd">>,
                                                   kind),
                              Some(pos'))))

(***************************************************************************)
(* C27: flow_sequence returns exactly the Scalar tokens read before the    *)
(* first FlowSequenceEnd, in stream order, each paired with its own        *)
(* position; FlowEntry tokens contribute nothing; a token that is none of  *)
(* Scalar, FlowEntry, FlowSequenceEnd fails with UnexpectedEntryMulti with *)
(* expected [FlowEntry, FlowSequenceEnd] and found its kind, at its        *)
(* position; an immediately closed sequence yields the empty list, not an  *)
(* error.                                                                  *)
(***************************************************************************)
C27_FlowSequence ==
  /\ [](pc = "get_flow_sequence" => values = ScalarsIn(FlowStart + 1, pos))
  /\ [][FlowSequenceStep]_vars
  /\ []((/\ Finished /\ MarkerPresent /\ Undeviated
         /\ doc = <<TitleA, Entry(s_mediaType, FlowValue(<<>>))>>)
        => (Succeeded /\ ret.result.v.media_types = Some(<<>>)))
C27_Witness ==
  /\ Succeeded /\ Undeviated
  /\ doc = <<TitleA, Entry(s_protocols, FlowValue(<<s_http>>)),
             Entry(s_protocols, FlowValue(<<v_HTTPS, s_http>>))>>
  /\ values = <<[value |-> v_HTTPS, marker |-> 17], [value |-> s_http, marker |-> 19]>>
  /\ ret.result.v.protocols = Some(<<"Https", "Http">>)

\* a step inside the grammar: every one of them is a pull
GrammarStep == pc \notin {"parse_raml_string", "done"} => pos' = pos + 1

(***************************************************************************)
(* C28: on a finite token stream that ends with StreamEnd a parse          *)
(* eventually terminates, either with the document model or with an        *)
(* error: every iteration of every grammar loop consumes at least one      *)
(* token, so the number of pulls never exceeds the length of the stream.   *)
(***************************************************************************)
C28_Terminates ==
  /\ (pc # "done") ~> (pc = "done")
  /\ [][GrammarStep]_vars
  /\ [](StreamEnded => pos <= Len(stream))
  /\ []((Finished /\ StreamEnded) => ret.state = "returned")

\* the local of parse_root that root key k fills
RootField(k) ==
  CASE k = s_title -> title
    [] k = s_version -> version
    [] k = s_description -> description
    [] k = s_baseUri -> base_uri
    [] k = s_protocols -> protocols
    [] k = s_mediaType -> media_types
    [] k = s_documentation -> documentation
    [] k = s_securitySchemes -> security_schemes
OptionalKeys == RootKeys \ {s_title}
\* the key of the entry of d whose tokens include the one at index p
KeyAt(d, p) ==
  {d[i].key : i \in {j \in 1..Len(d) :
                       /\ EntryStart(d, j) <= p
                       /\ p < EntryStart(d, j) + Len(RenderEntry(d[j]))}}
\* a step of the parse of the rendering of doc
FrameStep ==
  (pc # "done" /\ stream' = Render(doc) /\ pos' = pos + 1)
    => {k \in RootKeys : RootField(k)' # RootField(k)} \subseteq KeyAt(doc, pos')

(***************************************************************************)
(* C29: handling one recognised root key assigns only that key's field of  *)
(* the accumulator of parse_root and leaves the other seven unchanged;     *)
(* consequently in every model returned on success an optional field       *)
(* (version, description, base URI, protocols, media types, documentation, *)
(* security schemes) is present iff its key occurred in the root mapping.  *)
(***************************************************************************)
C29_Frame ==
  /\ [][FrameStep]_vars
  /\ []((Succeeded /\ Undeviated)
        => \A k \in OptionalKeys :
             FieldOf(ret.result.v, k).some <=> HasKey(doc, k))
C29_Witness ==
  /\ Succeeded /\ Undeviated
  /\ doc = <<Entry(s_description, ScalarValue(v_B)),
             Entry(s_version, ScalarValue(v_a)), TitleA>>
  /\ ret.result.v.description = Some(v_B)
  /\ ret.result.v.version = Some(v_a)
  /\ ~ret.result.v.base_uri.some

\* the entries of a document, their order forgotten
Entries(d) == {d[i] : i \in 1..Len(d)}
DistinctKeys(d) ==
  \A i, j \in 1..Len(d) : i # j => d[i].key # d[j].key
\* the model a set of entries with distinct keys stands for
ModelOfEntries(S) ==
  LET under(k) == (CHOOSE e \in S : e.key = k).value
      optional(k) == IF \E e \in S : e.key = k THEN ValueOf(k, under(k)) ELSE None
  IN [title |-> ValueOf(s_title, under(s_title)),
      version |-> optional(s_version),
      description |-> optional(s_description),
      base_uri |-> optional(s_baseUri),
      protocols |-> optional(s_protocols),
      media_types |-> optional(s_mediaType),
      documentation |-> optional(s_documentation),
      security_schemes |-> optional(s_securitySchemes)]

(***************************************************************************)
(* C30: the result does not depend on the order of the root keys: for      *)
(* documents whose root keys are pairwise distinct, whether the parse      *)
(* succeeds and the model it yields are determined by the set of the       *)
(* key/value entries alone, so every permutation of a successfully parsed  *)
(* document parses successfully to an equal model (title need not be the   *)
(* first key).                                                             *)
(***************************************************************************)
C30_OrderIndependent ==
  (Finished /\ MarkerPresent /\ Undeviated /\ DistinctKeys(doc))
    => /\ Succeeded <=> /\ \E e \in Entries(doc) : e.key = s_title
                        /\ \A e \in Entries(doc) : WellFormedEntry(e)
       /\ Succeeded => ret.result.v = ModelOfEntries(Entries(doc))
C30_Witness ==
  /\ Succeeded /\ Undeviated
  /\ doc = <<Entry(s_baseUri, ScalarValue(v_a)),
             Entry(s_version, ScalarValue(v_B)), TitleA>>
  /\ ret.result.v = [title |-> v_a, version |-> Some(v_B), description |-> None,
                     base_uri |-> Some(v_a), protocols |-> None,
                     media_types |-> None, documentation |-> None,
                     security_schemes |-> None]
====
